---- MODULE Spec2Model ----
(***************************************************************************)
(* PDFMaster (tabbed variant with split/undo): sessions, live page list,   *)
(* edit history, processing jobs and their asynchronous handlers.          *)
(*                                                                         *)
(* React state is modelled as committed values.  A handler is one action:  *)
(* it reads the values of the render it was created in, queues its state   *)
(* updates, and the commit that follows (re-render, useCallback            *)
(* re-creation, effects) is part of the same action.  An async handler is  *)
(* a task that keeps the values it closed over at dispatch and advances    *)
(* one awaited external step at a time.                                    *)
(***************************************************************************)
EXTENDS Integers, Sequences, FiniteSets, TLC

VARIABLES
  sessions,              \* PDFSession[]           (id, name, pages)
  activeSessionId,       \* string
  pages,                 \* live PDFPage[] of the component
  cbPages,               \* `pages` closed over by the memoized saveCurrentSession
  editHistory,           \* PDFPage[][]
  currentHistoryIndex,   \* number, -1 when empty
  editingTabId,          \* string | null (0 = null)
  editingTabName,        \* string, as a sequence of characters
  processingJobs,        \* ProcessingJob[]
  globalProcessingCount, \* number
  timers,                \* pending setTimeout callbacks of completeProcessingJob
  tasks,                 \* async handlers suspended at an await
  nextSession,           \* fresh-id sources (Date.now()/Math.random())
  nextPage,
  nextJob,
  nextLine,
  nextSplit,             \* applySplitsToPage invocations so far, plus one
  applyToAll,            \* boolean, the "apply to all" checkbox
  rearrangeInput,        \* string, as a sequence of characters
  panel,                 \* the single-session PDFMaster: its pages, its
                         \* localStorage record, and whether it is mounted
  autoSave,              \* components/PDFMaster.tsx: pages, the active session
                         \* and the dependencies its auto-save effect last saw
  lastOp                 \* the handler or callback that ran last, with its inputs

vars == <<sessions, activeSessionId, pages, cbPages, editHistory,
          currentHistoryIndex, editingTabId, editingTabName, processingJobs,
          globalProcessingCount, timers, tasks, nextSession, nextPage,
          nextJob, nextLine, nextSplit, applyToAll, rearrangeInput, panel,
          autoSave, lastOp>>

-----------------------------------------------------------------------------
(* Bounds of the model *)

MaxSessions == 3      \* sessions ever created, the initial one included
MaxPages == 2         \* pages ever created by uploads
MaxUploads == 1       \* upload jobs ever dispatched
MaxExports == 1       \* export jobs ever dispatched
MaxFiles == 2         \* files selected in one upload
MaxDocPages == 2      \* pages of one uploaded PDF document
MaxLines == 2         \* split lines ever drawn
MaxHistory == 3       \* entries kept in editHistory
MaxSplits == 2        \* applySplitsToPage invocations
MaxTurns == 1         \* quarter turns a page is rotated away from 0
MaxText == 5          \* characters typed into the rearrange input field
MaxPanelPages == 2    \* pages ever created in the single-session PDFMaster
MaxMasterPages == 2   \* pages ever created in components/PDFMaster.tsx
LoadedPages == 3      \* pages of the session whose pages are rearranged
OrderUploads == 2     \* upload jobs of a scenario that uploads again
OrderPages == 3       \* pages ever created in such a scenario
SortPages == 3        \* pages of the documents of an upload that is exported

(* Program constants *)

GraceDelay == 5       \* setTimeout(..., 5000), in seconds
RenderTimeout == 30   \* setTimeout(() => reject(...), 30000), in seconds
MinSegment == 5       \* if (segmentHeight > 5)
LineGap == 2          \* currentY = nextY + 2

(* Input domains *)

NoId == 0
NoParent == << >>
ImageHeight == 20                       \* natural height of an uploaded raster
Half == 2                               \* y coordinates are kept in half pixels
DrawnLines == { <<20, 20>>, <<21, 21>>, <<4, 8>> } \* y of the points of a drawn polyline
NoImage == << >>                        \* originalImageData undefined
Scales == {1, 2}                        \* sourceCanvas.height / displayCanvas.height
DigitChar == <<"1", "2", "3", "4", "5", "6">>
TypedNames == { <<" ">>, <<" ", "a">> }      \* what the user types as a tab name
Digits == <<"0", "1", "2", "3", "4", "5", "6", "7", "8", "9">>
TypedChars == { "1", "2", "3", "5", ",", ".", " " } \* keys pressed in the rearrange input
NaN == << >>                            \* parseInt of a text without leading digits

-----------------------------------------------------------------------------
(* Sequence helpers (Array.prototype.map / filter / find / sort) *)

Max2(a, b) == IF a >= b THEN a ELSE b
Min2(a, b) == IF a <= b THEN a ELSE b

RECURSIVE SumSeq(_)
SumSeq(s) == IF s = << >> THEN 0 ELSE Head(s) + SumSeq(Tail(s))

RECURSIVE MinSeq(_)
MinSeq(s) == IF Len(s) = 1 THEN s[1] ELSE Min2(s[1], MinSeq(Tail(s)))

\* Array.prototype.sort((a, b) => a.order - b.order): stable, ascending
RECURSIVE InsertByOrder(_, _)
InsertByOrder(x, s) ==
  IF s = << >> THEN <<x>>
  ELSE IF x.order < s[Len(s)].order
       THEN InsertByOrder(x, SubSeq(s, 1, Len(s) - 1)) \o <<s[Len(s)]>>
       ELSE s \o <<x>>

RECURSIVE SortByOrder(_)
SortByOrder(ps) ==
  IF ps = << >> THEN << >>
  ELSE InsertByOrder(ps[Len(ps)], SortByOrder(SubSeq(ps, 1, Len(ps) - 1)))

\* .map((p, index) => ({ ...p, order: index }))   (order is kept in 1/1000)
Reindex(ps) == [i \in 1..Len(ps) |-> [ps[i] EXCEPT !.order = (i - 1) * 1000]]

\* String.prototype.trim on a sequence of characters
RECURSIVE TrimLeft(_)
TrimLeft(s) == IF s # << >> /\ Head(s) = " " THEN TrimLeft(Tail(s)) ELSE s

RECURSIVE TrimRight(_)
TrimRight(s) ==
  IF s # << >> /\ s[Len(s)] = " " THEN TrimRight(SubSeq(s, 1, Len(s) - 1)) ELSE s

Trim(s) == TrimRight(TrimLeft(s))

-----------------------------------------------------------------------------
(* Sessions *)

HasSession(ss, id) == \E i \in 1..Len(ss) : ss[i].id = id

\* sessions.find(s => s.id === id)
FindSession(ss, id) == ss[CHOOSE i \in 1..Len(ss) :
                           ss[i].id = id /\ \A j \in 1..(i - 1) : ss[j].id # id]

\* const activeSession = sessions.find(...) || sessions[0]: the id of that
\* record (NoId when the list is empty and the expression is undefined)
ActiveSessionIdOf(ss, id) ==
  IF HasSession(ss, id) THEN id ELSE IF ss = << >> THEN NoId ELSE ss[1].id

\* setSessions(prev => prev.map(s => s.id === id ? { ...s, pages } : s))
StorePages(ss, id, ps) ==
  [i \in 1..Len(ss) |-> IF ss[i].id = id THEN [ss[i] EXCEPT !.pages = ps] ELSE ss[i]]

NewSession(id, n) == [id |-> id, name |-> <<"P", DigitChar[n]>>, pages |-> << >>]

(***************************************************************************)
(* The commit that follows a batch of state updates.  s1, a1, p1, h1, i1   *)
(* are the values of sessions, activeSessionId, pages, editHistory and     *)
(* currentHistoryIndex after the batch; replaced tells whether the batch   *)
(* put a new object in place of the active session's record.              *)
(*  - useCallback re-creates saveCurrentSession (closing over the pages of *)
(*    this render) only when activeSessionId or activeSession changed;     *)
(*  - the auto-save effect runs when pages.length or activeSessionId       *)
(*    changed and calls the saveCurrentSession of this render; its write   *)
(*    replaces the active session's record, so the next render re-creates  *)
(*    the callback;                                                        *)
(*  - the history effect seeds editHistory with the first non-empty list.  *)
(***************************************************************************)
CallbackAfterRender(s1, a1, p1, replaced) ==
  IF a1 # activeSessionId
     \/ replaced
     \/ ActiveSessionIdOf(s1, a1) # ActiveSessionIdOf(sessions, activeSessionId)
  THEN p1 ELSE cbPages

AutoSaveRuns(a1, p1) ==
  (Len(p1) # Len(pages) \/ a1 # activeSessionId) /\ Len(p1) > 0

Commit(s1, a1, p1, h1, i1, replaced) ==
  LET cb1 == CallbackAfterRender(s1, a1, p1, replaced)
      save == AutoSaveRuns(a1, p1)
  IN /\ sessions' = IF save THEN StorePages(s1, a1, cb1) ELSE s1
     /\ activeSessionId' = a1
     /\ pages' = p1
     /\ cbPages' = IF save /\ HasSession(s1, a1) THEN p1 ELSE cb1
     /\ editHistory' = IF Len(h1) = 0 /\ Len(p1) > 0 THEN <<p1>> ELSE h1
     /\ currentHistoryIndex' = IF Len(h1) = 0 /\ Len(p1) > 0 THEN 0 ELSE i1

\* a batch that only touches the live page list
CommitPages(p1) ==
  Commit(sessions, activeSessionId, p1, editHistory, currentHistoryIndex, FALSE)

-----------------------------------------------------------------------------
(* Session management *)

\* the queued update of saveCurrentSession()
SaveCurrentSession(ss) == StorePages(ss, activeSessionId, cbPages)

\* switchToSession(sessionId) called by a handler whose own queued updates
\* make `queued` out of the previous session list
SwitchFrom(queued, sessionId) ==
  LET s1 == SaveCurrentSession(queued)
      found == HasSession(sessions, sessionId)
      a1 == IF found THEN sessionId ELSE activeSessionId
      p1 == IF found THEN FindSession(sessions, sessionId).pages ELSE pages
  IN Commit(s1, a1, p1, editHistory, currentHistoryIndex,
            HasSession(queued, activeSessionId))

SwitchToSession(sessionId) ==
  /\ SwitchFrom(sessions, sessionId)
  /\ lastOp' = <<"switchToSession", sessionId, [from |-> activeSessionId, pages |-> pages]>>
  /\ UNCHANGED <<editingTabId, editingTabName, processingJobs,
                 globalProcessingCount, timers, tasks, nextSession, nextPage,
                 nextJob, nextLine, nextSplit,
                 applyToAll, rearrangeInput, panel, autoSave>>

AddNewSession ==
  /\ nextSession <= MaxSessions
  /\ SwitchFrom(Append(sessions, NewSession(nextSession, Len(sessions) + 1)),
                nextSession)
  /\ nextSession' = nextSession + 1
  /\ lastOp' = <<"addNewSession", nextSession, 0>>
  /\ UNCHANGED <<editingTabId, editingTabName, processingJobs,
                 globalProcessingCount, timers, tasks, nextPage, nextJob,
                 nextLine, nextSplit,
                 applyToAll, rearrangeInput, panel, autoSave>>

RemoveSession(ss, sessionId) == SelectSeq(ss, LAMBDA s : s.id # sessionId)

CloseSessionMissingGuard(sessionId) ==
  IF sessionId = activeSessionId /\ Len(RemoveSession(sessions, sessionId)) > 0
  THEN SwitchFrom(RemoveSession(sessions, sessionId),
                  RemoveSession(sessions, sessionId)[1].id)
  ELSE Commit(RemoveSession(sessions, sessionId), activeSessionId, pages,
              editHistory, currentHistoryIndex, FALSE)

CloseSessionKeepsActive(sessionId) ==
  IF Len(sessions) = 1
  THEN UNCHANGED <<sessions, activeSessionId, pages, cbPages, editHistory,
                   currentHistoryIndex>>
  ELSE Commit(RemoveSession(sessions, sessionId), activeSessionId, pages,
              editHistory, currentHistoryIndex, FALSE)

CloseSessionKeepsPages(sessionId) ==
  IF Len(sessions) = 1
  THEN UNCHANGED <<sessions, activeSessionId, pages, cbPages, editHistory,
                   currentHistoryIndex>>
  ELSE IF sessionId = activeSessionId
       THEN Commit(RemoveSession(sessions, sessionId),
                   RemoveSession(sessions, sessionId)[1].id, pages,
                   editHistory, currentHistoryIndex, FALSE)
       ELSE Commit(RemoveSession(sessions, sessionId), activeSessionId, pages,
                   editHistory, currentHistoryIndex, FALSE)

CloseSessionBody(sessionId) ==
  IF Len(sessions) = 1
  THEN UNCHANGED <<sessions, activeSessionId, pages, cbPages, editHistory,
                   currentHistoryIndex>>
  ELSE IF sessionId = activeSessionId
            /\ Len(RemoveSession(sessions, sessionId)) > 0
       THEN SwitchFrom(RemoveSession(sessions, sessionId),
                       RemoveSession(sessions, sessionId)[1].id)
       ELSE Commit(RemoveSession(sessions, sessionId), activeSessionId, pages,
                   editHistory, currentHistoryIndex, FALSE)

CloseSession(sessionId) ==
  /\ CloseSessionBody(sessionId)
  /\ lastOp' = <<"closeSession", sessionId,
                 [count |-> Len(sessions), active |-> activeSessionId]>>
  /\ UNCHANGED <<editingTabId, editingTabName, processingJobs,
                 globalProcessingCount, timers, tasks, nextSession, nextPage,
                 nextJob, nextLine, nextSplit,
                 applyToAll, rearrangeInput, panel, autoSave>>

StartEditingTab(sessionId) ==
  /\ editingTabId' = sessionId
  /\ editingTabName' = FindSession(sessions, sessionId).name
  /\ lastOp' = <<"startEditingTab", sessionId, 0>>
  /\ UNCHANGED <<sessions, activeSessionId, pages, cbPages, editHistory,
                 currentHistoryIndex, processingJobs, globalProcessingCount,
                 timers, tasks, nextSession, nextPage, nextJob, nextLine, nextSplit,
                 applyToAll, rearrangeInput, panel, autoSave>>

\* onChange of the tab name input
TypeTabName(name) ==
  /\ editingTabId # NoId
  /\ editingTabName # name
  /\ editingTabName' = name
  /\ lastOp' = <<"typeTabName", 0, 0>>
  /\ UNCHANGED <<sessions, activeSessionId, pages, cbPages, editHistory,
                 currentHistoryIndex, editingTabId, processingJobs,
                 globalProcessingCount, timers, tasks, nextSession, nextPage,
                 nextJob, nextLine, nextSplit,
                 applyToAll, rearrangeInput, panel, autoSave>>

RenameEverySession(ss, id, name) ==
  [i \in 1..Len(ss) |-> [ss[i] EXCEPT !.name = name]]

RenameSession(ss, id, name) ==
  [i \in 1..Len(ss) |-> IF ss[i].id = id THEN [ss[i] EXCEPT !.name = name] ELSE ss[i]]

FinishEditingTab ==
  /\ editingTabId # NoId
  /\ IF Trim(editingTabName) # << >>
     THEN Commit(RenameSession(sessions, editingTabId, Trim(editingTabName)),
                 activeSessionId, pages, editHistory, currentHistoryIndex,
                 editingTabId = activeSessionId /\ HasSession(sessions, editingTabId))
     ELSE UNCHANGED <<sessions, activeSessionId, pages, cbPages, editHistory,
                      currentHistoryIndex>>
  /\ editingTabId' = NoId
  /\ editingTabName' = << >>
  /\ lastOp' = <<"finishEditingTab", editingTabId, 0>>
  /\ UNCHANGED <<processingJobs, globalProcessingCount, timers, tasks,
                 nextSession, nextPage, nextJob, nextLine, nextSplit,
                 applyToAll, rearrangeInput, panel, autoSave>>

CancelEditingTab ==
  /\ editingTabId # NoId
  /\ editingTabId' = NoId
  /\ editingTabName' = << >>
  /\ lastOp' = <<"cancelEditingTab", editingTabId, 0>>
  /\ UNCHANGED <<sessions, activeSessionId, pages, cbPages, editHistory,
                 currentHistoryIndex, processingJobs, globalProcessingCount,
                 timers, tasks, nextSession, nextPage, nextJob, nextLine, nextSplit,
                 applyToAll, rearrangeInput, panel, autoSave>>

-----------------------------------------------------------------------------
(* Pages and the split engine *)

\* the PDFPage built by imageToPage / handlePDFUpload
\* isOriginal is only read as !page.isOriginal: FALSE stands for false and
\* for undefined
NewPage(n, order) ==
  [id |-> <<n>>, rotation |-> 0, order |-> order * 1000, height |-> ImageHeight,
   splitLines |-> << >>, parentPageId |-> NoParent, splitIndex |-> -1,
   imageData |-> <<n>>, originalImageData |-> NoImage, isOriginal |-> FALSE]

\* the PDFPage built by handlePDFUpload for an extracted page
NewPdfPage(n, order) ==
  [NewPage(n, order) EXCEPT !.originalImageData = <<n>>, !.isOriginal = TRUE]

HasPage(ps, id) == \E i \in 1..Len(ps) : ps[i].id = id

FindPage(ps, id) == ps[CHOOSE i \in 1..Len(ps) :
                         ps[i].id = id /\ \A j \in 1..(i - 1) : ps[j].id # id]

PageIds(ps) == { ps[i].id : i \in 1..Len(ps) }

\* average y of a line is sum / length: compare by cross-multiplication
AvgYLess(a, b) == SumSeq(a.ys) * Len(b.ys) < SumSeq(b.ys) * Len(a.ys)

ScaleLine(line, scale) == [line EXCEPT !.ys = [k \in 1..Len(line.ys) |-> line.ys[k] * scale]]

RECURSIVE InsertByAvgY(_, _)
InsertByAvgY(x, s) ==
  IF s = << >> THEN <<x>>
  ELSE IF AvgYLess(x, s[Len(s)])
       THEN InsertByAvgY(x, SubSeq(s, 1, Len(s) - 1)) \o <<s[Len(s)]>>
       ELSE s \o <<x>>

RECURSIVE SortByAvgY(_)
SortByAvgY(ls) ==
  IF ls = << >> THEN << >>
  ELSE InsertByAvgY(ls[Len(ls)], SortByAvgY(SubSeq(ls, 1, Len(ls) - 1)))

SortedLines(page, scale) ==
  SortByAvgY([k \in 1..Len(page.splitLines) |-> ScaleLine(page.splitLines[k], scale)])

Segment(page, i, segmentHeight) ==
  [page EXCEPT !.id = Append(page.id, i),
               !.imageData = Append(page.imageData, i),
               !.parentPageId = page.id,
               !.splitIndex = i,
               !.order = page.order + i,
               !.height = segmentHeight,
               !.splitLines = << >>,
               !.isOriginal = FALSE]

\* for (let i = 0; i <= sortedLines.length; i++) { ... }
RECURSIVE SplitLoop(_, _, _, _)
SplitLoop(page, lines, i, currentY) ==
  IF i > Len(lines) THEN << >>
  ELSE LET nextY == IF i < Len(lines) THEN MinSeq(lines[i + 1].ys)
                    ELSE page.height * Half
           \* Math.max(1, Math.floor(nextY - currentY))
           segmentHeight == Max2(1, (nextY - currentY) \div Half)
           rest == SplitLoop(page, lines, i + 1, nextY + LineGap * Half)
       IN IF segmentHeight > MinSegment
          THEN <<Segment(page, i, segmentHeight)>> \o rest
          ELSE rest

SplitImageByLinesNoShortcut(page, scale, loaded) ==
  IF ~loaded THEN <<page>>
  ELSE LET splitPages == SplitLoop(page, SortedLines(page, scale), 0, 0)
       IN IF Len(splitPages) > 0 THEN splitPages ELSE <<page>>

\* splitImageByLines; loaded = FALSE is img.onerror
SplitImageByLines(page, scale, loaded) ==
  IF Len(page.splitLines) = 0 \/ ~loaded THEN <<page>>
  ELSE LET splitPages == SplitLoop(page, SortedLines(page, scale), 0, 0)
       IN IF Len(splitPages) > 0 THEN splitPages ELSE <<page>>

-----------------------------------------------------------------------------
(* Page edits *)

\* the rotations a scenario with few quarter turns allows
TurnsWithin(pageId, direction) ==
  /\ HasPage(pages, pageId)
  /\ IF direction = "right"
     THEN FindPage(pages, pageId).rotation < 90 * MaxTurns
     ELSE FindPage(pages, pageId).rotation > 0

RotateRight(r) == (r + 90) % 360
RotateLeftNoWrap(r) == r - 90
RotateLeft(r) == (r - 90 + 360) % 360

RotatePage(pageId, direction) ==
  /\ HasPage(pages, pageId)
  /\ CommitPages([i \in 1..Len(pages) |->
        IF pages[i].id = pageId
        THEN [pages[i] EXCEPT !.rotation =
                IF direction = "right" THEN RotateRight(@) ELSE RotateLeft(@)]
        ELSE pages[i]])
  /\ lastOp' = <<"rotatePage", pageId, direction>>
  /\ UNCHANGED <<editingTabId, editingTabName, processingJobs,
                 globalProcessingCount, timers, tasks, nextSession, nextPage,
                 nextJob, nextLine, nextSplit,
                 applyToAll, rearrangeInput, panel, autoSave>>

\* String.prototype.split(','): the pieces of s between commas, cur being the
\* piece collected so far
RECURSIVE SplitComma(_, _)
SplitComma(s, cur) ==
  IF s = << >> THEN <<cur>>
  ELSE IF Head(s) = "," THEN <<cur>> \o SplitComma(Tail(s), << >>)
  ELSE SplitComma(Tail(s), Append(cur, Head(s)))

\* Array.prototype.join(',')
RECURSIVE JoinComma(_)
JoinComma(toks) ==
  IF toks = << >> THEN << >>
  ELSE IF Len(toks) = 1 THEN toks[1]
  ELSE toks[1] \o <<",">> \o JoinComma(Tail(toks))

IsDigit(c) == \E d \in 1..10 : Digits[d] = c
DigitValue(c) == (CHOOSE d \in 1..10 : Digits[d] = c) - 1

\* the number of leading decimal digits of s
RECURSIVE DigitPrefix(_)
DigitPrefix(s) ==
  IF s # << >> /\ IsDigit(Head(s)) THEN 1 + DigitPrefix(Tail(s)) ELSE 0

\* the value of a sequence of decimal digits
RECURSIVE DecimalValue(_)
DecimalValue(ds) ==
  IF ds = << >> THEN 0
  ELSE 10 * DecimalValue(SubSeq(ds, 1, Len(ds) - 1)) + DigitValue(ds[Len(ds)])

\* parseInt(s) without radix, for texts that have no 0x prefix: leading white
\* space is skipped, a sign is read, then the longest run of digits; what
\* follows the digits is ignored.  The result is <<n>> or NaN.
ParseInt(s) ==
  LET t == TrimLeft(s)
      signed == t # << >> /\ Head(t) \in {"-", "+"}
      u == IF signed THEN Tail(t) ELSE t
      n == DigitPrefix(u)
      v == DecimalValue(SubSeq(u, 1, n))
  IN IF n = 0 THEN NaN
     ELSE IF signed /\ Head(t) = "-" THEN <<0 - v>> ELSE <<v>>

\* parseInt(num.trim()) - 1; NaN - 1 is NaN
PositionOf(num) ==
  LET x == ParseInt(Trim(num)) IN IF x = NaN THEN NaN ELSE <<x[1] - 1>>

\* rearrangeInput.split(',').map(num => parseInt(num.trim()) - 1)
NewOrder(text) ==
  LET nums == SplitComma(text, << >>)
  IN [i \in 1..Len(nums) |-> PositionOf(nums[i])]

\* newOrder.every(pos => pos >= 0 && pos < pages.length); false for NaN
ValidPositions(newOrder, n) ==
  \A i \in 1..Len(newOrder) :
     newOrder[i] # NaN /\ newOrder[i][1] >= 0 /\ newOrder[i][1] < n

\* new Set(newOrder).size === newOrder.length
UniquePositions(newOrder) ==
  Cardinality({ newOrder[i] : i \in 1..Len(newOrder) }) = Len(newOrder)

ReorderedPagesInverse(ps, newOrder) ==
  [i \in 1..Len(newOrder) |->
     ps[CHOOSE j \in 1..Len(newOrder) : newOrder[j][1] + 1 = i]]

\* newOrder.map(oldIndex => pages[oldIndex])
ReorderedPages(ps, newOrder) ==
  [i \in 1..Len(newOrder) |-> ps[newOrder[i][1] + 1]]

\* the rearrange dialog is rendered while rearrangeInput !== ''
RearrangeDialogOpen == rearrangeInput # << >>

\* a key pressed in the dialog's input with the caret after k characters:
\* setRearrangeInput(e.target.value)
TypeRearrangeInput(c, k) ==
  /\ RearrangeDialogOpen
  /\ Len(rearrangeInput) < MaxText
  /\ k \in 0..Len(rearrangeInput)
  /\ rearrangeInput' = SubSeq(rearrangeInput, 1, k) \o <<c>>
                         \o SubSeq(rearrangeInput, k + 1, Len(rearrangeInput))
  /\ lastOp' = <<"setRearrangeInput", 0, 0>>
  /\ UNCHANGED <<sessions, activeSessionId, pages, cbPages, editHistory,
                 currentHistoryIndex, editingTabId, editingTabName,
                 processingJobs, globalProcessingCount, timers, tasks,
                 nextSession, nextPage, nextJob, nextLine, nextSplit,
                 applyToAll, panel, autoSave>>

\* backspace in the dialog's input with the caret after k characters
EraseRearrangeInput(k) ==
  /\ RearrangeDialogOpen
  /\ k \in 1..Len(rearrangeInput)
  /\ rearrangeInput' = SubSeq(rearrangeInput, 1, k - 1)
                         \o SubSeq(rearrangeInput, k + 1, Len(rearrangeInput))
  /\ lastOp' = <<"setRearrangeInput", 0, 0>>
  /\ UNCHANGED <<sessions, activeSessionId, pages, cbPages, editHistory,
                 currentHistoryIndex, editingTabId, editingTabName,
                 processingJobs, globalProcessingCount, timers, tasks,
                 nextSession, nextPage, nextJob, nextLine, nextSplit,
                 applyToAll, panel, autoSave>>

\* the dialog's Cancel button
CancelInputRearrange ==
  /\ RearrangeDialogOpen
  /\ rearrangeInput' = << >>
  /\ lastOp' = <<"cancelInputRearrange", 0, 0>>
  /\ UNCHANGED <<sessions, activeSessionId, pages, cbPages, editHistory,
                 currentHistoryIndex, editingTabId, editingTabName,
                 processingJobs, globalProcessingCount, timers, tasks,
                 nextSession, nextPage, nextJob, nextLine, nextSplit,
                 applyToAll, panel, autoSave>>

\* the Input button of the rearrange options, which the open dialog covers
StartInputRearrange ==
  /\ ~RearrangeDialogOpen
  /\ rearrangeInput' = JoinComma([i \in 1..Len(pages) |-> <<Digits[i + 1]>>])
  /\ lastOp' = <<"startInputRearrange", 0, 0>>
  /\ UNCHANGED <<sessions, activeSessionId, pages, cbPages, editHistory,
                 currentHistoryIndex, editingTabId, editingTabName,
                 processingJobs, globalProcessingCount, timers, tasks,
                 nextSession, nextPage, nextJob, nextLine, nextSplit,
                 applyToAll, panel, autoSave>>

\* lastOp records the text applied, whether it was accepted, and the page list
\* the handler saw
ApplyInputRearrange ==
  LET newOrder == NewOrder(rearrangeInput)
      rejected == \/ Len(newOrder) # Len(pages)
                  \/ ~ValidPositions(newOrder, Len(pages))
                  \/ ~UniquePositions(newOrder)
  IN /\ RearrangeDialogOpen
     /\ IF rejected
        THEN UNCHANGED <<sessions, activeSessionId, pages, cbPages, editHistory,
                         currentHistoryIndex, rearrangeInput>>
        ELSE /\ CommitPages(Reindex(ReorderedPages(pages, newOrder)))
             /\ rearrangeInput' = << >>
     /\ lastOp' = <<"applyInputRearrange", rearrangeInput,
                    [accepted |-> ~rejected, before |-> pages]>>
     /\ UNCHANGED <<editingTabId, editingTabName, processingJobs,
                    globalProcessingCount, timers, tasks, nextSession, nextPage,
                    nextJob, nextLine, nextSplit, applyToAll, panel, autoSave>>

DeletePage(pageId) ==
  /\ HasPage(pages, pageId)
  /\ CommitPages(SelectSeq(pages, LAMBDA p : p.id # pageId))
  /\ lastOp' = <<"deletePage", pageId, 0>>
  /\ UNCHANGED <<editingTabId, editingTabName, processingJobs,
                 globalProcessingCount, timers, tasks, nextSession, nextPage,
                 nextJob, nextLine, nextSplit,
                 applyToAll, rearrangeInput, panel, autoSave>>

\* reversePagesOrder: setPages(prev => [...prev].reverse().map(order: index))
ReversePagesOrder ==
  /\ Len(pages) > 1
  /\ CommitPages(Reindex([i \in 1..Len(pages) |-> pages[Len(pages) + 1 - i]]))
  /\ lastOp' = <<"reversePagesOrder", 0, 0>>
  /\ UNCHANGED <<editingTabId, editingTabName, processingJobs,
                 globalProcessingCount, timers, tasks, nextSession, nextPage,
                 nextJob, nextLine, nextSplit,
                 applyToAll, rearrangeInput, panel, autoSave>>

\* mouse down, move and up on the page's canvas in split mode: the line drawn
\* has the points ys, and finishDrawingSplitLine adds it to the page
FinishDrawingSplitLine(pageId, ys) ==
  /\ nextLine <= MaxLines
  /\ HasPage(pages, pageId)
  /\ Len(ys) >= 2
  /\ CommitPages([i \in 1..Len(pages) |->
        IF pages[i].id = pageId
        THEN [pages[i] EXCEPT
                !.originalImageData = IF @ = NoImage THEN pages[i].imageData ELSE @,
                !.splitLines = Append(@, [id |-> nextLine, ys |-> ys]),
                !.isOriginal = FALSE]
        ELSE pages[i]])
  /\ nextLine' = nextLine + 1
  /\ lastOp' = <<"finishDrawingSplitLine", pageId, 0>>
  /\ UNCHANGED <<editingTabId, editingTabName, processingJobs,
                 globalProcessingCount, timers, tasks, nextSession, nextPage,
                 nextJob, nextSplit,
                 applyToAll, rearrangeInput, panel, autoSave>>

\* deleteSplitLine(pageId, lineId)
DeleteSplitLine(pageId, lineId) ==
  /\ HasPage(pages, pageId)
  /\ \E k \in 1..Len(FindPage(pages, pageId).splitLines) :
        FindPage(pages, pageId).splitLines[k].id = lineId
  /\ CommitPages([i \in 1..Len(pages) |->
        IF pages[i].id = pageId /\ pages[i].splitLines # << >>
        THEN [pages[i] EXCEPT
                !.splitLines = SelectSeq(@, LAMBDA l : l.id # lineId),
                !.isOriginal =
                   SelectSeq(pages[i].splitLines, LAMBDA l : l.id # lineId) = << >>]
        ELSE pages[i]])
  /\ lastOp' = <<"deleteSplitLine", pageId, lineId>>
  /\ UNCHANGED <<editingTabId, editingTabName, processingJobs,
                 globalProcessingCount, timers, tasks, nextSession, nextPage,
                 nextJob, nextLine, nextSplit, applyToAll, rearrangeInput, panel, autoSave>>

\* resetPageToOriginal(pageId); its button is shown for a page with
\* !page.isOriginal && page.originalImageData
ResetPageToOriginal(pageId) ==
  /\ HasPage(pages, pageId)
  /\ ~FindPage(pages, pageId).isOriginal
  /\ FindPage(pages, pageId).originalImageData # NoImage
  /\ CommitPages([i \in 1..Len(pages) |->
        IF pages[i].id = pageId /\ pages[i].originalImageData # NoImage
        THEN [pages[i] EXCEPT !.imageData = pages[i].originalImageData,
                              !.splitLines = << >>,
                              !.isOriginal = TRUE]
        ELSE pages[i]])
  /\ lastOp' = <<"resetPageToOriginal", pageId, 0>>
  /\ UNCHANGED <<editingTabId, editingTabName, processingJobs,
                 globalProcessingCount, timers, tasks, nextSession, nextPage,
                 nextJob, nextLine, nextSplit, applyToAll, rearrangeInput, panel, autoSave>>

\* the "apply to all" checkbox: setApplyToAll(e.target.checked)
ToggleApplyToAll ==
  /\ applyToAll' = ~applyToAll
  /\ lastOp' = <<"setApplyToAll", 0, 0>>
  /\ UNCHANGED <<sessions, activeSessionId, pages, cbPages, editHistory,
                 currentHistoryIndex, editingTabId, editingTabName,
                 processingJobs, globalProcessingCount, timers, tasks,
                 nextSession, nextPage, nextJob, nextLine, nextSplit,
                 rearrangeInput, panel, autoSave>>

-----------------------------------------------------------------------------
(* History *)

HistoryAfterSaveKeepsTail == Append(editHistory, pages)

\* saveToHistory: the new history and cursor
HistoryAfterSave == Append(SubSeq(editHistory, 1, currentHistoryIndex + 1), pages)

\* const previousState = editHistory[currentHistoryIndex - 1]  (0-based)
UndoTarget == editHistory[currentHistoryIndex]

UndoAtOldest ==
  /\ IF currentHistoryIndex >= 0
     THEN Commit(sessions, activeSessionId,
                 editHistory[Max2(1, currentHistoryIndex)], editHistory,
                 Max2(0, currentHistoryIndex - 1), FALSE)
     ELSE UNCHANGED <<sessions, activeSessionId, pages, cbPages, editHistory,
                      currentHistoryIndex>>
  /\ lastOp' = <<"undo", currentHistoryIndex, 0>>
  /\ UNCHANGED <<editingTabId, editingTabName, processingJobs,
                 globalProcessingCount, timers, tasks, nextSession, nextPage,
                 nextJob, nextLine, nextSplit, applyToAll, rearrangeInput, panel, autoSave>>

Undo ==
  /\ IF currentHistoryIndex > 0
     THEN Commit(sessions, activeSessionId, UndoTarget, editHistory,
                 currentHistoryIndex - 1, FALSE)
     ELSE UNCHANGED <<sessions, activeSessionId, pages, cbPages, editHistory,
                      currentHistoryIndex>>
  /\ lastOp' = <<"undo", currentHistoryIndex, 0>>
  /\ UNCHANGED <<editingTabId, editingTabName, processingJobs,
                 globalProcessingCount, timers, tasks, nextSession, nextPage,
                 nextJob, nextLine, nextSplit,
                 applyToAll, rearrangeInput, panel, autoSave>>

-----------------------------------------------------------------------------
(* Async handlers suspended at an await *)

Task(kind, job, files, i, k, newPages, baseLen, page) ==
  [kind |-> kind, job |-> job, files |-> files, i |-> i, k |-> k,
   newPages |-> newPages, baseLen |-> baseLen, page |-> page, wait |-> 0,
   out |-> << >>, session |-> activeSessionId]

NoPage == NewPage(0, 0)

SplitTasks == { t \in tasks : t.kind = "split" }

\* applySplitsToPage up to its await: saveToHistory(), pages.find, then the
\* image load of splitImageByLines (the button exists for pages with lines)
\* the scenarios in which a split is started when no other split is running
SplitsOneByOne == Cardinality(SplitTasks) = 0

ApplySplitsToPage(pageId) ==
  /\ HasPage(pages, pageId)
  /\ Len(FindPage(pages, pageId).splitLines) > 0
  /\ Len(editHistory) < MaxHistory
  /\ nextSplit <= MaxSplits
  /\ Commit(sessions, activeSessionId, pages, HistoryAfterSave,
            Len(HistoryAfterSave) - 1, FALSE)
  /\ tasks' = tasks \cup
        {Task("split", 0, << >>, 0, nextSplit, pages, Len(pages),
              FindPage(pages, pageId))}
  /\ nextSplit' = nextSplit + 1
  /\ lastOp' = <<"applySplitsToPage", pageId,
                 [entries |-> Len(editHistory), cursor |-> currentHistoryIndex]>>
  /\ UNCHANGED <<editingTabId, editingTabName, processingJobs,
                 globalProcessingCount, timers, nextSession, nextPage, nextJob,
                 nextLine,
                 applyToAll, rearrangeInput, panel, autoSave>>

\* setPages(prev => ...) of applySplitsToPage
ReplaceBySplit(prev, pageId, splitPages) ==
  Reindex(SortByOrder(SelectSeq(prev, LAMBDA p : p.id # pageId) \o splitPages))

\* img.onload / img.onerror of splitImageByLines, and the rest of the handler
SplitDone(t, scale, loaded) ==
  /\ t \in tasks /\ t.kind = "split"
  /\ LET splitPages == SplitImageByLines(t.page, scale, loaded)
     IN IF Len(splitPages) > 1
           \/ (Len(splitPages) = 1 /\ splitPages[1].id # t.page.id)
        THEN CommitPages(ReplaceBySplit(pages, t.page.id, splitPages))
        ELSE UNCHANGED <<sessions, activeSessionId, pages, cbPages, editHistory,
                         currentHistoryIndex>>
  /\ tasks' = tasks \ {t}
  /\ lastOp' = <<"splitDone", t.page.id, [snapshot |-> t.newPages, before |-> pages]>>
  /\ UNCHANGED <<editingTabId, editingTabName, processingJobs,
                 globalProcessingCount, timers, nextSession, nextPage, nextJob,
                 nextLine, nextSplit,
                 applyToAll, rearrangeInput, panel, autoSave>>

\* applySplitsToAllPages: for (const page of pages) runs on without a pause
\* over the pages that have no split lines; acc is allSplitPages
RECURSIVE SplitAllScan(_, _, _)
SplitAllScan(items, i, acc) ==
  IF i > Len(items) \/ Len(items[i].splitLines) > 0 THEN [i |-> i, acc |-> acc]
  ELSE SplitAllScan(items, i + 1, Append(acc, items[i]))

SplitAllTasks == { t \in tasks : t.kind = "splitAll" }

\* applySplitsToAllPages up to its first await (its button is shown while
\* applyToAll is set): saveToHistory(), then the loop; without a page that
\* has split lines the handler runs to its setPages in one go
ApplySplitsToAllPages ==
  /\ applyToAll
  /\ Len(editHistory) < MaxHistory
  /\ nextSplit <= MaxSplits
  /\ Cardinality(SplitTasks) = 0 /\ Cardinality(SplitAllTasks) = 0
  /\ LET r == SplitAllScan(pages, 1, << >>)
     IN IF r.i > Len(pages)
        THEN /\ Commit(sessions, activeSessionId, SortByOrder(r.acc),
                       HistoryAfterSave, Len(HistoryAfterSave) - 1, FALSE)
             /\ UNCHANGED tasks
             /\ lastOp' = <<"splitAllDone", 0,
                            [snapshot |-> pages, before |-> pages, split |-> 0]>>
        ELSE /\ Commit(sessions, activeSessionId, pages, HistoryAfterSave,
                       Len(HistoryAfterSave) - 1, FALSE)
             /\ tasks' = tasks \cup
                  {Task("splitAll", 0, pages, r.i, 0, r.acc, Len(pages), NoPage)}
             /\ lastOp' = <<"applySplitsToAllPages", 0,
                            [entries |-> Len(editHistory),
                             cursor |-> currentHistoryIndex]>>
  /\ nextSplit' = nextSplit + 1
  /\ UNCHANGED <<editingTabId, editingTabName, processingJobs,
                 globalProcessingCount, timers, nextSession, nextPage, nextJob,
                 nextLine, applyToAll, rearrangeInput, panel, autoSave>>

\* img.onload / img.onerror of the splitImageByLines awaited for page t.i of
\* the list the handler closed over, and the loop up to the next await or to
\* setPages(allSplitPages.sort((a, b) => a.order - b.order))
SplitAllStep(t, scale, loaded) ==
  /\ t \in tasks /\ t.kind = "splitAll"
  /\ LET splitPages == SplitImageByLines(t.files[t.i], scale, loaded)
         r == SplitAllScan(t.files, t.i + 1, t.newPages \o splitPages)
     IN IF r.i > Len(t.files)
        THEN /\ CommitPages(SortByOrder(r.acc))
             /\ tasks' = tasks \ {t}
             /\ lastOp' = <<"splitAllDone", 0,
                            [snapshot |-> t.files, before |-> pages,
                             split |-> t.k + 1]>>
        ELSE /\ tasks' = (tasks \ {t}) \cup
                  {[t EXCEPT !.i = r.i, !.k = t.k + 1, !.newPages = r.acc]}
             /\ lastOp' = <<"splitAllStep", 0, t.i>>
             /\ UNCHANGED <<sessions, activeSessionId, pages, cbPages,
                            editHistory, currentHistoryIndex>>
  /\ UNCHANGED <<editingTabId, editingTabName, processingJobs,
                 globalProcessingCount, timers, nextSession, nextPage, nextJob,
                 nextLine, nextSplit, applyToAll, rearrangeInput, panel, autoSave>>

-----------------------------------------------------------------------------
(* Processing jobs *)

ImageFiles == { <<"ok">>, <<"bad">>, <<"big">>, <<"other">> }
PdfFiles == { <<"notpdf">>, <<"corrupt">> }
              \cup UNION { [1..n -> {"ok", "fail", "hang"}] : n \in 1..MaxDocPages }
ExportOutcomes == { "ok", "embedfail" }

FileLists(kinds) == UNION { [1..n -> kinds] : n \in 1..MaxFiles }

\* the selection of one readable image
SingleImage == { << <<"ok">> >> }

\* the state touched by the job functions, while a batch of updates is queued
Batch == [jobs |-> processingJobs, count |-> globalProcessingCount, timers |-> timers]

AddProcessingJob(b, jobId, sessionId, type, total) ==
  [b EXCEPT !.jobs = Append(@, [id |-> jobId, sessionId |-> sessionId,
                                type |-> type, status |-> "processing",
                                progress |-> 0, total |-> total]),
            !.count = @ + 1]

SetProgress(b, jobId, progress) ==
  [b EXCEPT !.jobs = [i \in 1..Len(@) |->
      IF @[i].id = jobId THEN [@[i] EXCEPT !.progress = progress] ELSE @[i]]]

SetTotal(b, jobId, total) ==
  [b EXCEPT !.jobs = [i \in 1..Len(@) |->
      IF @[i].id = jobId THEN [@[i] EXCEPT !.total = total] ELSE @[i]]]

CompleteProcessingJobNoTimer(b, jobId, status) ==
  [jobs |-> [i \in 1..Len(b.jobs) |->
      IF b.jobs[i].id = jobId THEN [b.jobs[i] EXCEPT !.status = status] ELSE b.jobs[i]],
   count |-> Max2(0, b.count - 1),
   timers |-> b.timers]

CompleteProcessingJob(b, jobId, status) ==
  [jobs |-> [i \in 1..Len(b.jobs) |->
      IF b.jobs[i].id = jobId THEN [b.jobs[i] EXCEPT !.status = status] ELSE b.jobs[i]],
   count |-> Max2(0, b.count - 1),
   timers |-> Append(b.timers, [job |-> jobId, left |-> GraceDelay])]

CommitBatch(b) ==
  /\ processingJobs' = b.jobs
  /\ globalProcessingCount' = b.count
  /\ timers' = b.timers

HasJob(jobs, jobId) == \E i \in 1..Len(jobs) : jobs[i].id = jobId
FindJob(jobs, jobId) == jobs[CHOOSE i \in 1..Len(jobs) : jobs[i].id = jobId]

\* const isCurrentSessionProcessing = currentSessionJobs.some(...)
IsCurrentSessionProcessing ==
  \E i \in 1..Len(processingJobs) :
     /\ processingJobs[i].sessionId = activeSessionId
     /\ processingJobs[i].status = "processing"

CountOk(files) == Cardinality({ i \in 1..Len(files) : files[i] = <<"ok">> })

RECURSIVE CountOkPages(_)
CountOkPages(files) ==
  IF files = << >> THEN 0
  ELSE Cardinality({ k \in 1..Len(Head(files)) : Head(files)[k] = "ok" })
       + CountOkPages(Tail(files))

-----------------------------------------------------------------------------
(* handleImageUpload *)

\* the next file at or after i whose imageToPage suspends on the FileReader
RECURSIVE ImgNext(_, _)
ImgNext(files, i) ==
  IF i > Len(files) THEN i
  ELSE IF files[i] \in { <<"ok">>, <<"bad">> } THEN i
       ELSE ImgNext(files, i + 1)

\* progress: i of the last image file the loop reached in from..to (0-based)
RECURSIVE ImgProgress(_, _, _, _)
ImgProgress(files, from, to, cur) ==
  IF from > to \/ from > Len(files) THEN cur
  ELSE ImgProgress(files, from + 1, to,
                   IF files[from] = <<"other">> THEN cur ELSE from - 1)

\* the loop has run past the last file: setPages, completeProcessingJob
ImageFinish(b, jobId, newPages) ==
  /\ CommitPages(pages \o newPages)
  /\ CommitBatch(CompleteProcessingJob(b, jobId, "completed"))

\* the uploads a scenario with few jobs and few pages allows
UploadsWithin(files) ==
  /\ nextJob <= MaxUploads
  /\ nextPage + CountOk(files) <= MaxPages + 1

\* the uploads of the scenarios that delete a page and upload again
UploadsAgainWithin(files) ==
  /\ nextJob <= OrderUploads
  /\ nextPage + CountOk(files) <= OrderPages + 1

HandleImageUpload(files) ==
  /\ ~IsCurrentSessionProcessing
  /\ LET j == ImgNext(files, 1)
         b == SetProgress(AddProcessingJob(Batch, nextJob, activeSessionId,
                                           "upload", Len(files)),
                          nextJob, ImgProgress(files, 1, j, 0))
     IN IF j > Len(files)
        THEN /\ ImageFinish(b, nextJob, << >>)
             /\ UNCHANGED tasks
        ELSE /\ CommitBatch(b)
             /\ tasks' = tasks \cup
                  {Task("image", nextJob, files, j, 0, << >>, Len(pages), NoPage)}
             /\ UNCHANGED <<sessions, activeSessionId, pages, cbPages,
                            editHistory, currentHistoryIndex>>
  /\ nextJob' = nextJob + 1
  /\ lastOp' = <<"handleImageUpload", nextJob, 0>>
  /\ UNCHANGED <<editingTabId, editingTabName, nextSession, nextPage, nextLine, nextSplit,
                 applyToAll, rearrangeInput, panel, autoSave>>

\* the FileReader / Image of imageToPage settles for file t.i
ImageLoaded(t) ==
  /\ t \in tasks /\ t.kind = "image"
  /\ IF t.files[t.i] = <<"bad">>
     THEN \* reject -> catch of handleImageUpload
          /\ CommitBatch(CompleteProcessingJob(Batch, t.job, "error"))
          /\ tasks' = tasks \ {t}
          /\ lastOp' = <<"imageUploadEnd", t.job,
                         [status |-> "error", converted |-> t.newPages,
                          units |-> Len(t.files)]>>
          /\ UNCHANGED <<sessions, activeSessionId, pages, cbPages, editHistory,
                         currentHistoryIndex, nextPage>>
     ELSE LET newPages == Append(t.newPages,
                                 NewPage(nextPage, t.baseLen + Len(t.newPages)))
              j == ImgNext(t.files, t.i + 1)
              b == SetProgress(Batch, t.job,
                               ImgProgress(t.files, t.i + 1, j, t.i - 1))
          IN /\ nextPage' = nextPage + 1
             /\ IF j > Len(t.files)
                THEN /\ ImageFinish(b, t.job, newPages)
                     /\ tasks' = tasks \ {t}
                     /\ lastOp' = <<"imageUploadEnd", t.job,
                                    [status |-> "completed", converted |-> newPages,
                                     units |-> Len(t.files)]>>
                ELSE /\ CommitBatch(b)
                     /\ tasks' = (tasks \ {t}) \cup
                           {[t EXCEPT !.i = j, !.newPages = newPages]}
                     /\ lastOp' = <<"imageLoaded", t.job, t.i>>
                     /\ UNCHANGED <<sessions, activeSessionId, pages, cbPages,
                                    editHistory, currentHistoryIndex>>
  /\ UNCHANGED <<editingTabId, editingTabName, nextSession, nextJob, nextLine, nextSplit,
                 applyToAll, rearrangeInput, panel, autoSave>>

-----------------------------------------------------------------------------
(* handlePDFUpload *)

\* for (const file of files): files that are not PDFs are completed with an
\* error on the spot; the loop suspends at the first PDF (file.arrayBuffer())
RECURSIVE PdfSkip(_, _, _, _)
PdfSkip(b, jobId, files, i) ==
  IF i > Len(files) \/ files[i] # <<"notpdf">> THEN [b |-> b, i |-> i]
  ELSE PdfSkip(CompleteProcessingJob(b, jobId, "error"), jobId, files, i + 1)

HandlePDFUpload(files) ==
  /\ ~IsCurrentSessionProcessing
  /\ LET r == PdfSkip(AddProcessingJob(Batch, nextJob, activeSessionId, "upload", 1),
                      nextJob, files, 1)
     IN /\ CommitBatch(r.b)
        /\ tasks' = IF r.i > Len(files) THEN tasks
                    ELSE tasks \cup {Task("pdf", nextJob, files, r.i, 0, << >>,
                                          Len(pages), NoPage)}
  /\ nextJob' = nextJob + 1
  /\ lastOp' = <<"handlePDFUpload", nextJob, 0>>
  /\ UNCHANGED <<sessions, activeSessionId, pages, cbPages, editHistory,
                 currentHistoryIndex, editingTabId, editingTabName, nextSession,
                 nextPage, nextLine, nextSplit,
                 applyToAll, rearrangeInput, panel, autoSave>>

ExtractStatusNeedsAll(newPages, numPages) ==
  IF Len(newPages) = numPages THEN "completed" ELSE "error"

\* the terminal status handed to completeProcessingJob after the page loop
ExtractStatus(newPages, numPages) ==
  IF Len(newPages) > 0 THEN "completed" ELSE "error"

\* the loop moves on to the files after t.i
PdfContinue(t, b) ==
  LET r == PdfSkip(b, t.job, t.files, t.i + 1)
  IN /\ CommitBatch(r.b)
     /\ tasks' = IF r.i > Len(t.files) THEN tasks \ {t}
                 ELSE (tasks \ {t}) \cup
                        {[t EXCEPT !.i = r.i, !.k = 0, !.newPages = << >>]}

\* Promise.race([renderPromise, timeoutPromise]) for page k of doc: a render
\* that never settles ("hang") is decided by the timeout, RenderTimeout from
\* now; the timers of renders that settle first reject a settled race and are
\* left out
RaceWait(doc, k) == IF doc[k] = "hang" THEN RenderTimeout ELSE 0

\* the task waits in a race that only its timeout can decide
Hung(t) == t.kind = "pdf" /\ t.k >= 1 /\ t.files[t.i][t.k] = "hang"

\* getDocument(...) settles for file t.i
PdfLoaded(t) ==
  /\ t \in tasks /\ t.kind = "pdf" /\ t.k = 0
  /\ IF t.files[t.i] = <<"corrupt">>
     THEN /\ PdfContinue(t, CompleteProcessingJob(Batch, t.job, "error"))
          /\ lastOp' = <<"pdfDocumentEnd", t.job,
                         [status |-> "error", loaded |-> FALSE, failed |-> 0,
                          numPages |-> 0, files |-> Len(t.files),
                          doc |-> t.files[t.i], extracted |-> 0]>>
     ELSE /\ CommitBatch(SetProgress(SetTotal(Batch, t.job, Len(t.files[t.i])),
                                     t.job, 0))
          /\ tasks' = (tasks \ {t}) \cup
                {[t EXCEPT !.k = 1, !.wait = RaceWait(t.files[t.i], 1)]}
          /\ lastOp' = <<"pdfLoaded", t.job, t.i>>
  /\ UNCHANGED <<sessions, activeSessionId, pages, cbPages, editHistory,
                 currentHistoryIndex, editingTabId, editingTabName, nextSession,
                 nextPage, nextJob, nextLine, nextSplit,
                 applyToAll, rearrangeInput, panel, autoSave>>

\* getPage(k) and its render settle (or the render timeout wins the race)
PdfPageRendered(t) ==
  /\ t \in tasks /\ t.kind = "pdf" /\ t.k >= 1
  /\ t.wait = 0
  /\ LET doc == t.files[t.i]
         ok == doc[t.k] = "ok"
         newPages == IF ok
                     THEN Append(t.newPages,
                                 NewPdfPage(nextPage, t.baseLen + Len(t.newPages)))
                     ELSE t.newPages
         status == ExtractStatus(newPages, Len(doc))
     IN /\ nextPage' = IF ok THEN nextPage + 1 ELSE nextPage
        /\ IF t.k < Len(doc)
           THEN /\ CommitBatch(SetProgress(Batch, t.job, t.k))
                /\ tasks' = (tasks \ {t}) \cup
                      {[t EXCEPT !.k = t.k + 1, !.newPages = newPages,
                                 !.wait = RaceWait(doc, t.k + 1)]}
                /\ lastOp' = <<"pdfPageRendered", t.job, t.k>>
                /\ UNCHANGED <<sessions, activeSessionId, pages, cbPages,
                               editHistory, currentHistoryIndex>>
           ELSE /\ IF status = "completed"
                   THEN CommitPages(pages \o newPages)
                   ELSE UNCHANGED <<sessions, activeSessionId, pages, cbPages,
                                    editHistory, currentHistoryIndex>>
                /\ PdfContinue(t, CompleteProcessingJob(Batch, t.job, status))
                /\ lastOp' = <<"pdfDocumentEnd", t.job,
                               [status |-> status, loaded |-> TRUE,
                                failed |-> Cardinality({ k \in 1..Len(doc) :
                                                           doc[k] # "ok" }),
                                numPages |-> Len(doc), files |-> Len(t.files),
                                doc |-> doc, extracted |-> Len(newPages)]>>
  /\ UNCHANGED <<editingTabId, editingTabName, nextSession, nextJob, nextLine, nextSplit,
                 applyToAll, rearrangeInput, panel, autoSave>>

-----------------------------------------------------------------------------
(* exportToPDF / exportPagesToPDF *)

\* exportToPDF: pagesToExport is the live array, sorted in place
ExportToPDF ==
  /\ nextJob <= MaxUploads + MaxExports
  /\ ~IsCurrentSessionProcessing
  /\ Len(pages) > 0
  /\ CommitBatch(AddProcessingJob(Batch, nextJob, activeSessionId, "pdf", Len(pages)))
  /\ pages' = SortByOrder(pages)
  /\ tasks' = tasks \cup
       {Task("export", nextJob, << >>, 1, 0, SortByOrder(pages), Len(pages), NoPage)}
  /\ nextJob' = nextJob + 1
  /\ lastOp' = <<"exportToPDF", nextJob, 0>>
  /\ UNCHANGED <<sessions, activeSessionId, cbPages, editHistory,
                 currentHistoryIndex, editingTabId, editingTabName, nextSession,
                 nextPage, nextLine, nextSplit,
                 applyToAll, rearrangeInput, panel, autoSave>>

ExportUnitLive(page) ==
  LET live == IF HasPage(pages, page.id) THEN FindPage(pages, page.id) ELSE page
  IN [id |-> live.id, rotation |-> live.rotation, height |-> live.height]

\* the page added to the document for a page of the list: the page's image
\* drawn, turned by page.rotation, on a canvas of the page's size
ExportUnit(page) ==
  [id |-> page.id, rotation |-> page.rotation, height |-> page.height]

\* page t.i: its image has loaded and pdfDoc.embedPng settles with outcome;
\* t.k counts the pages added to the document so far, t.out lists them
ExportPageDone(t, outcome) ==
  /\ t \in tasks /\ t.kind = "export"
  /\ IF outcome = "embedfail"
     THEN \* the throw leaves the loop: catch of exportPagesToPDF
          /\ CommitBatch(CompleteProcessingJob(Batch, t.job, "error"))
          /\ tasks' = tasks \ {t}
          /\ lastOp' = <<"exportEnd", t.job,
                         [status |-> "error", emitted |-> t.k,
                          attempted |-> t.i, total |-> Len(t.newPages),
                          exported |-> t.newPages, units |-> t.out]>>
     ELSE IF t.i < Len(t.newPages)
          THEN /\ CommitBatch(SetProgress(Batch, t.job, t.i))
               /\ tasks' = (tasks \ {t}) \cup
                     {[t EXCEPT !.i = t.i + 1, !.k = t.k + 1,
                                !.out = Append(@, ExportUnit(t.newPages[t.i]))]}
               /\ lastOp' = <<"exportPageDone", t.job, t.i>>
          ELSE /\ CommitBatch(CompleteProcessingJob(Batch, t.job, "completed"))
               /\ tasks' = tasks \ {t}
               /\ lastOp' = <<"exportEnd", t.job,
                              [status |-> "completed", emitted |-> t.k + 1,
                               attempted |-> t.i, total |-> Len(t.newPages),
                               exported |-> t.newPages,
                               units |-> Append(t.out,
                                                ExportUnit(t.newPages[t.i]))]>>
  /\ UNCHANGED <<sessions, activeSessionId, pages, cbPages, editHistory,
                 currentHistoryIndex, editingTabId, editingTabName, nextSession,
                 nextPage, nextJob, nextLine, nextSplit,
                 applyToAll, rearrangeInput, panel, autoSave>>

\* page t.i: its image fails to load; img.onerror has no handler, so the
\* promise the handler awaits (resolved by img.onload alone) never settles
\* and the rest of the handler never runs
ExportImageFailed(t) ==
  /\ t \in tasks /\ t.kind = "export"
  /\ tasks' = tasks \ {t}
  /\ lastOp' = <<"exportImageError", t.job, t.i>>
  /\ UNCHANGED <<sessions, activeSessionId, pages, cbPages, editHistory,
                 currentHistoryIndex, editingTabId, editingTabName,
                 processingJobs, globalProcessingCount, timers, nextSession,
                 nextPage, nextJob, nextLine, nextSplit,
                 applyToAll, rearrangeInput, panel, autoSave>>

-----------------------------------------------------------------------------
(* The grace timers of completeProcessingJob *)

\* one second passes; an expired timer fires before more time passes
Tick ==
  /\ timers # << >> \/ \E t \in tasks : Hung(t)
  /\ \A i \in 1..Len(timers) : timers[i].left > 0
  /\ \A t \in tasks : Hung(t) => t.wait > 0
  /\ timers' = [i \in 1..Len(timers) |-> [timers[i] EXCEPT !.left = @ - 1]]
  /\ tasks' = { IF Hung(t) THEN [t EXCEPT !.wait = @ - 1] ELSE t : t \in tasks }
  /\ lastOp' = <<"tick", 0, 0>>
  /\ UNCHANGED <<sessions, activeSessionId, pages, cbPages, editHistory,
                 currentHistoryIndex, editingTabId, editingTabName,
                 processingJobs, globalProcessingCount, nextSession,
                 nextPage, nextJob, nextLine, nextSplit,
                 applyToAll, rearrangeInput, panel, autoSave>>

\* setProcessingJobs(prev => prev.filter(job => job.id !== jobId))
RemoveJob(jobs, jobId) == SelectSeq(jobs, LAMBDA j : j.id # jobId)

\* the callback of the oldest timer
TimerFired ==
  /\ timers # << >>
  /\ Head(timers).left = 0
  /\ processingJobs' = RemoveJob(processingJobs, Head(timers).job)
  /\ timers' = Tail(timers)
  /\ lastOp' = <<"timerFired", Head(timers).job, 0>>
  /\ UNCHANGED <<sessions, activeSessionId, pages, cbPages, editHistory,
                 currentHistoryIndex, editingTabId, editingTabName,
                 globalProcessingCount, tasks, nextSession, nextPage, nextJob,
                 nextLine, nextSplit,
                 applyToAll, rearrangeInput, panel, autoSave>>

-----------------------------------------------------------------------------
(* The single-session PDFMaster and its localStorage record *)

NoRecord == << >>                 \* localStorage.getItem(...) === null
StoreOutcomes == { "ok", "quota" } \* setItem returns, or throws QuotaExceededError
PanelOps == { "handleImageUpload", "rotatePage", "deletePage",
              "reversePagesOrder", "loadSession" }

InitPanel == [pages |-> << >>, stored |-> NoRecord, mounted |-> TRUE, next |-> 1]

PanelPage(n, order) == [id |-> n, rotation |-> 0, order |-> order]

\* JSON.stringify(session) and JSON.parse of it: name and the pages' ids,
\* rotations and orders are strings and numbers and come back as written;
\* originalImage (an HTMLImageElement) is written as {} and the dates as
\* strings, none of which the component reads again
SessionRecord(ps) ==
  [name |-> "PDF Project",
   pages |-> [i \in 1..Len(ps) |->
                [id |-> ps[i].id, rotation |-> ps[i].rotation,
                 order |-> ps[i].order]]]

\* the commit after setPages(ps): the effect on [pages, sessionName,
\* saveSession] calls saveSession when pages.length > 0.  setItem stores the
\* record, or throws; nothing catches the exception, the effect fails and
\* React unmounts the component, whose state is dropped.  The record in the
\* store stays as it was.
PanelCommit(op, ps, nx, outcome) ==
  /\ panel.mounted
  /\ Len(ps) = 0 => outcome = "ok"
  /\ panel' =
       IF Len(ps) = 0 THEN [panel EXCEPT !.pages = ps, !.next = nx]
       ELSE IF outcome = "ok"
            THEN [panel EXCEPT !.pages = ps, !.next = nx,
                               !.stored = SessionRecord(ps)]
            ELSE [panel EXCEPT !.pages = << >>, !.next = nx,
                               !.mounted = FALSE]
  /\ lastOp' = <<op, ps, IF Len(ps) = 0 THEN "none" ELSE outcome>>
  /\ UNCHANGED <<sessions, activeSessionId, pages, cbPages, editHistory,
                 currentHistoryIndex, editingTabId, editingTabName,
                 processingJobs, globalProcessingCount, timers, tasks,
                 nextSession, nextPage, nextJob, nextLine, nextSplit,
                 applyToAll, rearrangeInput, autoSave>>

\* handleImageUpload of one readable image, up to its setPages
PanelImageUpload(outcome) ==
  /\ panel.next <= MaxPanelPages
  /\ PanelCommit("handleImageUpload",
                 Append(panel.pages, PanelPage(panel.next, Len(panel.pages))),
                 panel.next + 1, outcome)

PanelRotatePage(pageId, direction, outcome) ==
  PanelCommit("rotatePage",
              [i \in 1..Len(panel.pages) |->
                 IF panel.pages[i].id = pageId
                 THEN [panel.pages[i] EXCEPT !.rotation =
                         IF direction = "right" THEN RotateRight(@)
                         ELSE RotateLeft(@)]
                 ELSE panel.pages[i]],
              panel.next, outcome)

PanelDeletePage(pageId, outcome) ==
  PanelCommit("deletePage",
              SelectSeq(panel.pages, LAMBDA pg : pg.id # pageId),
              panel.next, outcome)

PanelReversePagesOrder(outcome) ==
  PanelCommit("reversePagesOrder",
              [i \in 1..Len(panel.pages) |->
                 [panel.pages[Len(panel.pages) + 1 - i] EXCEPT !.order = i - 1]],
              panel.next, outcome)

\* the page is opened again after the component was unmounted: isVisible
\* runs loadSession, which installs the pages of the stored record
PanelLoadSession(outcome) ==
  /\ ~panel.mounted
  /\ LET ps == IF panel.stored = NoRecord THEN << >> ELSE panel.stored.pages
     IN /\ Len(ps) = 0 => outcome = "ok"
        /\ panel' =
             IF Len(ps) = 0 \/ outcome = "ok"
             THEN [panel EXCEPT !.pages = ps, !.mounted = TRUE]
             ELSE [panel EXCEPT !.pages = << >>, !.mounted = FALSE]
        /\ lastOp' = <<"loadSession", ps, IF Len(ps) = 0 THEN "none" ELSE outcome>>
  /\ UNCHANGED <<sessions, activeSessionId, pages, cbPages, editHistory,
                 currentHistoryIndex, editingTabId, editingTabName,
                 processingJobs, globalProcessingCount, timers, tasks,
                 nextSession, nextPage, nextJob, nextLine, nextSplit,
                 applyToAll, rearrangeInput, autoSave>>

PanelPageIds == { panel.pages[i].id : i \in 1..Len(panel.pages) }

NextPanel ==
  \/ \E o \in StoreOutcomes : PanelImageUpload(o)
  \/ \E id \in PanelPageIds, d \in {"left", "right"}, o \in StoreOutcomes :
        PanelRotatePage(id, d, o)
  \/ \E id \in PanelPageIds, o \in StoreOutcomes : PanelDeletePage(id, o)
  \/ \E o \in StoreOutcomes : PanelReversePagesOrder(o)
  \/ \E o \in StoreOutcomes : PanelLoadSession(o)

-----------------------------------------------------------------------------
(* The auto-save of src/components/PDFMaster.tsx *)

\* pages and the active session with the identity of their objects (pagesRef,
\* sessionRef): useCallback and useEffect compare their dependencies with
\* Object.is.  seen holds the identities the auto-save effect last ran with.
\* After the mount the effect has run once, on the empty list.
InitAutoSave ==
  [pages |-> << >>, pagesRef |-> 0, stored |-> << >>, sessionRef |-> 0,
   seen |-> <<0, 0>>, next |-> 1]

\* a new array or object: its identity differs from the identity it replaces
\* and from the one the effect still holds
FreshRef(current, held) == CHOOSE r \in 0..2 : r \notin {current, held}

\* saveCurrentSession is re-created when activeSessionId, pages or
\* activeSession changes, and the effect depends on [pages,
\* saveCurrentSession]: it is due again when the identity of pages or of the
\* active session is not the one it last ran with
AutoSavePending == <<autoSave.pagesRef, autoSave.sessionRef>> # autoSave.seen

\* the commit after a handler's setPages(prev => ...): map, filter and the
\* spread all build a new array
MasterCommit(op, arg, ps, nx) ==
  /\ autoSave' = [autoSave EXCEPT
                    !.pages = ps, !.next = nx,
                    !.pagesRef = FreshRef(autoSave.pagesRef, autoSave.seen[1])]
  /\ lastOp' = <<op, arg, 0>>
  /\ UNCHANGED <<sessions, activeSessionId, pages, cbPages, editHistory,
                 currentHistoryIndex, editingTabId, editingTabName,
                 processingJobs, globalProcessingCount, timers, tasks,
                 nextSession, nextPage, nextJob, nextLine, nextSplit,
                 applyToAll, rearrangeInput, panel>>

\* handleImageUpload of one readable image, up to its setPages
MasterImageUpload ==
  /\ autoSave.next <= MaxMasterPages
  /\ MasterCommit("handleImageUpload", autoSave.next,
                  Append(autoSave.pages,
                         PanelPage(autoSave.next, Len(autoSave.pages))),
                  autoSave.next + 1)

MasterRotatePage(pageId, direction) ==
  MasterCommit("rotatePage", pageId,
               [i \in 1..Len(autoSave.pages) |->
                  IF autoSave.pages[i].id = pageId
                  THEN [autoSave.pages[i] EXCEPT !.rotation =
                          IF direction = "right" THEN RotateRight(@)
                          ELSE RotateLeft(@)]
                  ELSE autoSave.pages[i]],
               autoSave.next)

MasterDeletePage(pageId) ==
  MasterCommit("deletePage", pageId,
               SelectSeq(autoSave.pages, LAMBDA pg : pg.id # pageId),
               autoSave.next)

\* the effect on [pages, saveCurrentSession] runs after a commit that changed
\* one of the two.  With pages it calls saveCurrentSession, whose
\* setSessions(prev => prev.map(...)) puts a new object { ...session, pages,
\* modifiedAt } in the place of the active session; in the render that
\* follows activeSession is that new object.
AutoSaveEffect ==
  /\ AutoSavePending
  /\ autoSave' =
       IF Len(autoSave.pages) > 0
       THEN [autoSave EXCEPT
               !.seen = <<autoSave.pagesRef, autoSave.sessionRef>>,
               !.stored = autoSave.pages,
               !.sessionRef = FreshRef(autoSave.sessionRef, autoSave.seen[2])]
       ELSE [autoSave EXCEPT
               !.seen = <<autoSave.pagesRef, autoSave.sessionRef>>]
  /\ lastOp' = <<"autoSave", autoSave.pages,
                 IF Len(autoSave.pages) > 0 THEN "saved" ELSE "none">>
  /\ UNCHANGED <<sessions, activeSessionId, pages, cbPages, editHistory,
                 currentHistoryIndex, editingTabId, editingTabName,
                 processingJobs, globalProcessingCount, timers, tasks,
                 nextSession, nextPage, nextJob, nextLine, nextSplit,
                 applyToAll, rearrangeInput, panel>>

NextAutoSave ==
  \/ MasterImageUpload
  \/ \E i \in 1..Len(autoSave.pages), d \in {"left", "right"} :
        MasterRotatePage(autoSave.pages[i].id, d)
  \/ \E i \in 1..Len(autoSave.pages) : MasterDeletePage(autoSave.pages[i].id)
  \/ AutoSaveEffect

-----------------------------------------------------------------------------
(* The component *)

Init ==
  /\ sessions = <<NewSession(1, 1)>>
  /\ activeSessionId = 1
  /\ pages = << >>
  /\ cbPages = << >>
  /\ editHistory = << >>
  /\ currentHistoryIndex = -1
  /\ editingTabId = NoId
  /\ editingTabName = << >>
  /\ processingJobs = << >>
  /\ globalProcessingCount = 0
  /\ timers = << >>
  /\ tasks = {}
  /\ nextSession = 2
  /\ nextPage = 1
  /\ nextJob = 1
  /\ nextLine = 1
  /\ nextSplit = 1
  /\ applyToAll = FALSE
  /\ rearrangeInput = << >>
  /\ panel = InitPanel
  /\ autoSave = InitAutoSave
  /\ lastOp = <<"mount", 0, 0>>

SessionIds == { sessions[i].id : i \in 1..Len(sessions) }

Next ==
  \/ AddNewSession
  \/ \E id \in SessionIds : SwitchToSession(id)
  \/ \E id \in SessionIds : CloseSession(id)
  \/ \E id \in SessionIds : StartEditingTab(id)
  \/ \E name \in TypedNames : TypeTabName(name)
  \/ FinishEditingTab
  \/ CancelEditingTab
  \/ \E id \in PageIds(pages), d \in {"left", "right"} : RotatePage(id, d)
  \/ \E id \in PageIds(pages) : DeletePage(id)
  \/ \E id \in PageIds(pages), ys \in DrawnLines : FinishDrawingSplitLine(id, ys)
  \/ \E id \in PageIds(pages) :
       SplitsOneByOne /\ ApplySplitsToPage(id)
  \/ \E t \in tasks, sc \in Scales, ld \in BOOLEAN : SplitDone(t, sc, ld)
  \/ Undo
  \/ \E id \in PageIds(pages), l \in 1..MaxLines : DeleteSplitLine(id, l)
  \/ \E id \in PageIds(pages) : ResetPageToOriginal(id)
  \/ ToggleApplyToAll
  \/ ApplySplitsToAllPages
  \/ \E t \in tasks, sc \in Scales, ld \in BOOLEAN : SplitAllStep(t, sc, ld)
  \/ \E c \in TypedChars, k \in 0..MaxText : TypeRearrangeInput(c, k)
  \/ \E k \in 1..MaxText : EraseRearrangeInput(k)
  \/ CancelInputRearrange
  \/ StartInputRearrange
  \/ ApplyInputRearrange
  \/ \E files \in FileLists(ImageFiles) :
       UploadsWithin(files) /\ HandleImageUpload(files)
  \/ \E t \in tasks : ImageLoaded(t)
  \/ \E files \in FileLists(PdfFiles) :
       /\ nextJob <= MaxUploads
       /\ nextPage + CountOkPages(files) <= MaxPages + 1
       /\ HandlePDFUpload(files)
  \/ \E t \in tasks : PdfLoaded(t)
  \/ \E t \in tasks : PdfPageRendered(t)
  \/ ExportToPDF
  \/ \E t \in tasks, o \in ExportOutcomes : ExportPageDone(t, o)
  \/ \E t \in tasks : ExportImageFailed(t)
  \/ ReversePagesOrder
  \/ Tick
  \/ TimerFired
  \/ NextPanel

Spec == Init /\ [][Next]_vars

\* the session manager with uploads and edits of the live page list
NextSessions ==
  \/ AddNewSession
  \/ \E id \in SessionIds : SwitchToSession(id)
  \/ \E id \in SessionIds : CloseSession(id)
  \/ \E id \in SessionIds : StartEditingTab(id)
  \/ \E name \in TypedNames : TypeTabName(name)
  \/ FinishEditingTab
  \/ CancelEditingTab
  \/ \E id \in PageIds(pages), d \in {"left", "right"} :
        TurnsWithin(id, d) /\ RotatePage(id, d)
  \/ \E id \in PageIds(pages) : DeletePage(id)
  \/ \E files \in SingleImage :
       UploadsWithin(files) /\ HandleImageUpload(files)
  \/ \E t \in tasks : ImageLoaded(t)

SpecSessions == Init /\ [][NextSessions]_vars

\* the history manager and the split engine, across sessions
HistorySessions == 2  \* tabs open in this scenario

NextHistory ==
  \/ (Len(sessions) < HistorySessions /\ AddNewSession)
  \/ \E id \in SessionIds : SwitchToSession(id)
  \/ \E id \in PageIds(pages), ys \in DrawnLines : FinishDrawingSplitLine(id, ys)
  \/ \E id \in PageIds(pages) :
       SplitsOneByOne /\ ApplySplitsToPage(id)
  \/ \E t \in tasks, sc \in Scales, ld \in BOOLEAN : SplitDone(t, sc, ld)
  \/ Undo
  \/ \E files \in SingleImage :
       UploadsWithin(files) /\ HandleImageUpload(files)
  \/ \E t \in tasks : ImageLoaded(t)

SpecHistory == Init /\ [][NextHistory]_vars

\* the split engine on the pages of one session
GoodImages == FileLists({ <<"ok">> })
StraightLines == { <<20, 20>> }   \* a horizontal line across the middle
UnitScale == {1}                  \* the canvas is shown at its natural size

NextSplit ==
  \/ \E files \in GoodImages :
       UploadsWithin(files) /\ HandleImageUpload(files)
  \/ \E t \in tasks : ImageLoaded(t)
  \/ \E id \in PageIds(pages), ys \in StraightLines : FinishDrawingSplitLine(id, ys)
  \/ \E id \in PageIds(pages), l \in 1..MaxLines : DeleteSplitLine(id, l)
  \/ \E id \in PageIds(pages) : ResetPageToOriginal(id)
  \/ ToggleApplyToAll
  \/ \E id \in PageIds(pages) :
       SplitsOneByOne /\ ApplySplitsToPage(id)
  \/ \E t \in tasks, sc \in UnitScale, ld \in BOOLEAN : SplitDone(t, sc, ld)
  \/ ApplySplitsToAllPages
  \/ \E t \in tasks, sc \in UnitScale, ld \in BOOLEAN : SplitAllStep(t, sc, ld)
  \/ Undo

SpecSplit == Init /\ [][NextSplit]_vars

\* uploading, deleting a page, uploading again, and splitting single pages
NextOrder ==
  \/ \E files \in GoodImages :
       UploadsAgainWithin(files) /\ HandleImageUpload(files)
  \/ \E t \in tasks : ImageLoaded(t)
  \/ \E id \in PageIds(pages) : DeletePage(id)
  \/ \E id \in PageIds(pages), ys \in StraightLines : FinishDrawingSplitLine(id, ys)
  \/ \E id \in PageIds(pages) :
       SplitsOneByOne /\ ApplySplitsToPage(id)
  \/ \E t \in tasks, sc \in UnitScale, ld \in BOOLEAN : SplitDone(t, sc, ld)

SpecOrder == Init /\ [][NextOrder]_vars

\* a page is uploaded, a line is drawn on it, and its split is started, also
\* while an earlier split of the page is still running
NextTwice ==
  \/ \E files \in SingleImage :
       UploadsWithin(files) /\ HandleImageUpload(files)
  \/ \E t \in tasks : ImageLoaded(t)
  \/ \E id \in PageIds(pages), ys \in DrawnLines : FinishDrawingSplitLine(id, ys)
  \/ \E id \in PageIds(pages) : ApplySplitsToPage(id)
  \/ \E t \in tasks, sc \in UnitScale, ld \in BOOLEAN : SplitDone(t, sc, ld)

SpecTwice == Init /\ [][NextTwice]_vars

\* the documents whose pages all render
GoodDocs == UNION { [1..n -> {"ok"}] : n \in 1..MaxDocPages }

\* PDF documents are uploaded in one selection, pages are deleted, and the
\* list is exported
NextSort ==
  \/ \E files \in FileLists(GoodDocs) :
       /\ nextJob <= MaxUploads
       /\ nextPage + CountOkPages(files) <= SortPages + 1
       /\ HandlePDFUpload(files)
  \/ \E t \in tasks : PdfLoaded(t)
  \/ \E t \in tasks : PdfPageRendered(t)
  \/ \E id \in PageIds(pages) : DeletePage(id)
  \/ ExportToPDF
  \/ \E t \in tasks, o \in ExportOutcomes : ExportPageDone(t, o)

SpecSort == Init /\ [][NextSort]_vars

\* a session of n pages: the state after n readable images were uploaded in one
\* selection and the finished job was purged
InitLoaded ==
  \E n \in 1..LoadedPages :
    LET ps == [k \in 1..n |-> NewPage(k, k - 1)]
    IN /\ sessions = <<NewSession(1, 1)>>
       /\ activeSessionId = 1
       /\ pages = ps
       /\ cbPages = ps
       /\ editHistory = <<ps>>
       /\ currentHistoryIndex = 0
       /\ editingTabId = NoId
       /\ editingTabName = << >>
       /\ processingJobs = << >>
       /\ globalProcessingCount = 0
       /\ timers = << >>
       /\ tasks = {}
       /\ nextSession = 2
       /\ nextPage = n + 1
       /\ nextJob = 2
       /\ nextLine = 1
       /\ nextSplit = 1
       /\ applyToAll = FALSE
       /\ rearrangeInput = << >>
       /\ panel = InitPanel
       /\ autoSave = InitAutoSave
       /\ lastOp = <<"timerFired", 1, 0>>

NextRearrange ==
  \/ \E c \in TypedChars, k \in 0..MaxText : TypeRearrangeInput(c, k)
  \/ \E k \in 1..MaxText : EraseRearrangeInput(k)
  \/ CancelInputRearrange
  \/ StartInputRearrange
  \/ ApplyInputRearrange

SpecRearrange == InitLoaded /\ [][NextRearrange]_vars

\* uploaded pages are edited (split lines, quarter turns, deletions,
\* reversals) and exported, the edits also while the export runs
NextExport ==
  \/ \E files \in GoodImages :
       UploadsWithin(files) /\ HandleImageUpload(files)
  \/ \E t \in tasks : ImageLoaded(t)
  \/ \E id \in PageIds(pages), ys \in StraightLines : FinishDrawingSplitLine(id, ys)
  \/ \E id \in PageIds(pages), d \in {"left", "right"} :
        TurnsWithin(id, d) /\ RotatePage(id, d)
  \/ \E id \in PageIds(pages) : DeletePage(id)
  \/ ReversePagesOrder
  \/ ExportToPDF
  \/ \E t \in tasks, o \in ExportOutcomes : ExportPageDone(t, o)

SpecExport == Init /\ [][NextExport]_vars

SpecPanel == Init /\ [][NextPanel]_vars

\* React runs a due effect after the commit that made it due
FairSpecAutoSave ==
  Init /\ [][NextAutoSave]_vars /\ WF_vars(AutoSaveEffect)

NextRotate ==
  \E id \in PageIds(pages), d \in {"left", "right"} : RotatePage(id, d)

SpecRotate == InitLoaded /\ [][NextRotate]_vars

\* splitImageByLines as a function: a call with a page of one of two heights
\* that carries up to MaxLines split lines, and its return value
SplitYs == { <<10, 10>>, <<20, 20>>, <<21, 21>>, <<4, 8>>, <<40, 44>> }
SplitHeights == { ImageHeight - 12, ImageHeight, ImageHeight + 10 }

LineLists ==
  UNION { [1..k -> [id : 1..MaxLines, ys : SplitYs]] : k \in 0..MaxLines }

SplitInputs ==
  { [NewPage(1, 0) EXCEPT !.height = h, !.rotation = r, !.splitLines = ls] :
      h \in SplitHeights, r \in {0, 90},
      ls \in { l \in LineLists : \A k \in 1..Len(l) : l[k].id = k } }

InitSplitCall ==
  /\ sessions = <<NewSession(1, 1)>>
  /\ activeSessionId = 1
  /\ pages = << >>
  /\ cbPages = << >>
  /\ editHistory = << >>
  /\ currentHistoryIndex = -1
  /\ editingTabId = NoId
  /\ editingTabName = << >>
  /\ processingJobs = << >>
  /\ globalProcessingCount = 0
  /\ timers = << >>
  /\ tasks = {}
  /\ nextSession = 2
  /\ nextPage = 1
  /\ nextJob = 1
  /\ nextLine = 1
  /\ nextSplit = 1
  /\ applyToAll = FALSE
  /\ rearrangeInput = << >>
  /\ panel = InitPanel
  /\ autoSave = InitAutoSave
  \* a line is drawn on the shown canvas: scaled, it lies on the source image
  /\ \E page \in SplitInputs, sc \in Scales, ld \in BOOLEAN :
        /\ \A k \in 1..Len(page.splitLines) :
              \A n \in 1..Len(page.splitLines[k].ys) :
                 page.splitLines[k].ys[n] * sc <= page.height * Half
        /\ lastOp = <<"splitImageByLines", page, [scale |-> sc, loaded |-> ld]>>

SplitReturn ==
  /\ lastOp[1] = "splitImageByLines"
  /\ lastOp' = <<"splitReturn", lastOp[2],
                 [scale |-> lastOp[3].scale, loaded |-> lastOp[3].loaded,
                  result |-> SplitImageByLines(lastOp[2], lastOp[3].scale,
                                               lastOp[3].loaded)]>>
  /\ UNCHANGED <<sessions, activeSessionId, pages, cbPages, editHistory,
                 currentHistoryIndex, editingTabId, editingTabName,
                 processingJobs, globalProcessingCount, timers, tasks,
                 nextSession, nextPage, nextJob, nextLine, nextSplit,
                 applyToAll, rearrangeInput, panel, autoSave>>

SpecSplitCall == InitSplitCall /\ [][SplitReturn]_vars

\* the job queue: import, extract and export jobs and their grace timers
NextJobs ==
  \/ \E files \in FileLists(ImageFiles) :
       UploadsWithin(files) /\ HandleImageUpload(files)
  \/ \E t \in tasks : ImageLoaded(t)
  \/ \E files \in FileLists(PdfFiles) :
       /\ nextJob <= MaxUploads
       /\ nextPage + CountOkPages(files) <= MaxPages + 1
       /\ HandlePDFUpload(files)
  \/ \E t \in tasks : PdfLoaded(t)
  \/ \E t \in tasks : PdfPageRendered(t)
  \/ ExportToPDF
  \/ \E t \in tasks, o \in ExportOutcomes : ExportPageDone(t, o)
  \/ \E t \in tasks : ExportImageFailed(t)
  \/ Tick
  \/ TimerFired

SpecJobs == Init /\ [][NextJobs]_vars

\* timers run: time passes and an expired timer's callback is called
\* the callback of an expired render timeout
RenderTimeoutFired == \E t \in tasks : Hung(t) /\ PdfPageRendered(t)

FairSpecJobs ==
  SpecJobs /\ WF_vars(Tick) /\ WF_vars(TimerFired) /\ WF_vars(RenderTimeoutFired)

\* a callback that an awaited step has made ready is called
TaskStep ==
  \/ \E t \in tasks : ImageLoaded(t)
  \/ \E t \in tasks : PdfLoaded(t)
  \/ \E t \in tasks : PdfPageRendered(t)
  \/ \E t \in tasks, o \in ExportOutcomes : ExportPageDone(t, o)
  \/ \E t \in tasks : ExportImageFailed(t)

\* every awaited external step settles, and timers run
FairSpecWork == FairSpecJobs /\ WF_vars(TaskStep)

-----------------------------------------------------------------------------
(* Session manager: C1, C2, C4 *)

\* C1: after any sequence of addNewSession, switchToSession, closeSession and
\* rename operations the session list holds at least one session, and
\* closeSession called when exactly one session remains changes neither the
\* session list nor the active session id nor the live page list.
C1_SessionsNeverEmpty ==
  /\ [](Len(sessions) >= 1)
  /\ [][(lastOp'[1] = "closeSession" /\ Len(sessions) = 1)
          => (sessions' = sessions /\ activeSessionId' = activeSessionId
              /\ pages' = pages)]_vars

\* closeSession has been called on the only session
C1_Witness ==
  lastOp[1] = "closeSession" /\ lastOp[3].count = 1 /\ Len(sessions) = 1

\* C2: in every reachable state exactly one session of the list has the id
\* activeSessionId, also after the active session was closed.
C2_ExactlyOneActive ==
  Cardinality({ i \in 1..Len(sessions) : sessions[i].id = activeSessionId }) = 1

\* the active session of several has just been closed
C2_Witness ==
  /\ lastOp[1] = "closeSession"
  /\ lastOp[3].active = lastOp[2]
  /\ lastOp[3].count > 1
  /\ ~HasSession(sessions, lastOp[2])

\* C4: switching from session A to session B and straight back to A makes
\* the live page list equal to A's list as it was before the first switch
\* (same pages, same order, same rotation and split lines).
C4_SwitchRoundTrip ==
  [][(/\ lastOp[1] = "switchToSession"
      /\ lastOp[3].from # lastOp[2]
      /\ activeSessionId = lastOp[2]
      /\ lastOp'[1] = "switchToSession"
      /\ lastOp'[2] = lastOp[3].from)
       => pages' = lastOp[3].pages]_vars

-----------------------------------------------------------------------------
(* History manager and page ownership: C3, C10 *)

\* the page ids a session holds: the live list for the active session, the
\* stored list for every other session
PageIdsOfSession(i) ==
  IF sessions[i].id = activeSessionId THEN PageIds(pages)
  ELSE PageIds(sessions[i].pages)

\* C3: no page belongs to two sessions: the page ids held by two distinct
\* sessions are disjoint in every reachable state.
C3_PagesDisjoint ==
  \A i, j \in 1..Len(sessions) :
     i # j => PageIdsOfSession(i) \cap PageIdsOfSession(j) = {}

\* C10: when applySplitsToPage has snapshotted the page list and then replaced
\* a page by its segments, one undo() makes the live page list equal to the
\* snapshotted list (the list right before the mutation, split lines included).
C10_UndoRestoresSnapshot ==
  [][(/\ lastOp[1] = "splitDone"
      /\ lastOp[3].snapshot = lastOp[3].before
      /\ pages # lastOp[3].before
      /\ lastOp'[1] = "undo")
       => pages' = lastOp[3].snapshot]_vars

-----------------------------------------------------------------------------
(* Job queue: C5 - C9 *)

\* the units of the job whose end lastOp reports (the selected files of an
\* image import, the pages of an export, the pages of the document of an
\* extract) and the units among them that did not succeed
EndedUnits ==
  IF lastOp[1] = "imageUploadEnd" THEN lastOp[3].units
  ELSE IF lastOp[1] = "exportEnd" THEN lastOp[3].total
  ELSE lastOp[3].numPages

EndedFailed ==
  IF lastOp[1] = "imageUploadEnd" THEN lastOp[3].units - Len(lastOp[3].converted)
  ELSE IF lastOp[1] = "exportEnd" THEN lastOp[3].total - lastOp[3].emitted
  ELSE lastOp[3].failed

JobHasEnded ==
  \/ lastOp[1] \in {"imageUploadEnd", "exportEnd"}
  \/ lastOp[1] = "pdfDocumentEnd" /\ lastOp[3].loaded

\* C5: a job that processes M units of which f fail is given the status
\* completed when f < M and the status error when f = M, whatever its kind
\* (image import, document extract, export).
C5_StatusByFailures ==
  JobHasEnded =>
     /\ EndedFailed < EndedUnits => lastOp[3].status = "completed"
     /\ EndedFailed = EndedUnits => lastOp[3].status = "error"

\* C5, the case of one document: an extract job over the pages of the only
\* selected document ends completed iff at least one page was extracted.
C5_SingleDocumentExtract ==
  (lastOp[1] = "pdfDocumentEnd" /\ lastOp[3].loaded /\ lastOp[3].files = 1) =>
     /\ HasJob(processingJobs, lastOp[2])
     /\ FindJob(processingJobs, lastOp[2]).status = "completed"
          <=> lastOp[3].failed < lastOp[3].numPages

\* C6: in an export job a page whose rendering or embedding fails is left out
\* and the remaining pages are still processed: the job ends only after all
\* its pages were attempted, and it ends with status error only when no page
\* was emitted.
C6_ExportToleratesPageFailure ==
  lastOp[1] = "exportEnd" =>
     /\ lastOp[3].attempted = lastOp[3].total
     /\ lastOp[3].status = "error" <=> lastOp[3].emitted = 0

\* C7: in an image-import job every file that was converted becomes a page of
\* the session whatever happens to the other files, and the job ends with
\* status error only when no file produced a page.
C7_ImportKeepsSiblings ==
  lastOp[1] = "imageUploadEnd" =>
     /\ PageIds(lastOp[3].converted) \subseteq PageIds(pages)
     /\ lastOp[3].status = "error" => lastOp[3].converted = << >>

PendingTimers(jobId) == { i \in 1..Len(timers) : timers[i].job = jobId }

JobIsTerminal(jobId) ==
  /\ HasJob(processingJobs, jobId)
  /\ FindJob(processingJobs, jobId).status \in {"completed", "error"}

\* C9: a job leaves the job list only in the callback of a grace timer that
\* was started with 5 time units when the job was given a terminal status and
\* has run down to 0; a job in status processing is never removed; and every
\* job that reaches a terminal status is eventually removed.
C9_GracePeriod ==
  /\ [][\A i \in 1..Len(processingJobs) :
          ~HasJob(processingJobs', processingJobs[i].id)
            => /\ processingJobs[i].status \in {"completed", "error"}
               /\ lastOp'[1] = "timerFired"
               /\ Head(timers).job = processingJobs[i].id
               /\ Head(timers).left = 0]_vars
  /\ [][\A k \in 1..Len(timers') :
          k > Len(timers) => timers'[k].left = 5]_vars
  /\ \A id \in 1..(MaxUploads + MaxExports) :
        JobIsTerminal(id) ~> ~HasJob(processingJobs, id)

\* a job that had a terminal status was removed by its timer
C9_Witness ==
  /\ lastOp[1] = "timerFired"
  /\ lastOp[2] \in 1..(nextJob - 1)
  /\ ~HasJob(processingJobs, lastOp[2])

-----------------------------------------------------------------------------
(* History manager: C11 - C13 *)

\* C11: undo() called while the history cursor is at the oldest entry
\* (index 0) or while the history is empty (index -1) changes neither the
\* live page list nor the history entries nor the cursor.
C11_UndoAtOldestIsNoOp ==
  [][(lastOp'[1] = "undo" /\ currentHistoryIndex <= 0)
       => (pages' = pages /\ editHistory' = editHistory
           /\ currentHistoryIndex' = currentHistoryIndex)]_vars

\* undo was called at index 0 while the live list differed from the oldest entry
C11_Witness ==
  /\ lastOp[1] = "undo"
  /\ lastOp[2] = 0
  /\ currentHistoryIndex = 0
  /\ pages # editHistory[1]

\* C12: every operation that changes page identity or pixel content
\* (applySplitsToPage, applySplitsToAllPages, resetPageToOriginal) has pushed
\* a snapshot of the pre-mutation page list before it changes the page list:
\* when such an operation changes the list, the list it replaces is an entry
\* of the history.
C12_SnapshotBeforeMutation ==
  [][(/\ lastOp'[1] \in {"splitDone", "splitAllDone", "resetPageToOriginal"}
      /\ pages' # pages)
       => \E k \in 1..Len(editHistory') : editHistory'[k] = pages]_vars

\* C13: saveToHistory discards the entries after the cursor, appends the
\* current page list and moves the cursor to the new last entry; the entries
\* at or before the old cursor are unchanged.
C13_SaveToHistory ==
  [][(\/ lastOp'[1] \in {"applySplitsToPage", "applySplitsToAllPages"}
      \/ (lastOp'[1] = "splitAllDone" /\ lastOp'[3].split = 0))
       => /\ Len(editHistory') = currentHistoryIndex + 2
          /\ editHistory'[Len(editHistory')] = pages
          /\ currentHistoryIndex' = Len(editHistory') - 1
          /\ \A k \in 1..(currentHistoryIndex + 1) :
                editHistory'[k] = editHistory[k]]_vars

\* a snapshot was taken while entries after the cursor existed
C13_Witness ==
  /\ lastOp[1] = "applySplitsToPage"
  /\ lastOp[3].entries > lastOp[3].cursor + 1
  /\ Len(editHistory) = lastOp[3].cursor + 2
  /\ currentHistoryIndex = lastOp[3].cursor + 1

-----------------------------------------------------------------------------
(* Split engine: C19, C20 *)

\* C19: after applySplitsToAllPages the page list is sorted by order and the
\* order indices are reassigned: the page at list position i (from 0) has
\* order i.
C19_ApplyAllReindexes ==
  lastOp[1] = "splitAllDone" =>
     \A i \in 1..Len(pages) : pages[i].order = (i - 1) * 1000

\* C20: in every reachable state a page with a non-empty splitLines list has
\* no parentPageId.
C20_LinesOnlyOnUnsplitPages ==
  \A i \in 1..Len(pages) :
     pages[i].splitLines # << >> => pages[i].parentPageId = NoParent

-----------------------------------------------------------------------------------------------------------------------------------------------------------------------------------------------------------------------------
(* Session operations: C21, C22, C23, C24 *)

\* C21: right after addNewSession the session list holds the new session
\* with an empty page list, activeSessionId is the new session's id and the
\* live page list is empty.
C21_AddActivatesNewSession ==
  lastOp[1] = "addNewSession"
     => /\ HasSession(sessions, lastOp[2])
        /\ FindSession(sessions, lastOp[2]).pages = << >>
        /\ activeSessionId = lastOp[2]
        /\ pages = << >>

\* C22: switchToSession(id) for another existing session stores the live
\* page list in the record of the session that was active, makes the stored
\* page list of the target the live list, makes the target active and leaves
\* the stored page lists of all other sessions unchanged.
C22_SwitchFlushesAndLoads ==
  [][(/\ lastOp'[1] = "switchToSession"
      /\ HasSession(sessions, lastOp'[2])
      /\ lastOp'[2] # activeSessionId)
       => /\ activeSessionId' = lastOp'[2]
          /\ pages' = FindSession(sessions, lastOp'[2]).pages
          /\ HasSession(sessions', activeSessionId)
          /\ FindSession(sessions', activeSessionId).pages = pages
          /\ Len(sessions') = Len(sessions)
          /\ \A i \in 1..Len(sessions) :
               sessions[i].id # activeSessionId
                 => sessions'[i] = sessions[i]]_vars

\* C23: closeSession(id) with more than one session removes the session id
\* and nothing else from the list and changes no other record; when id was
\* active, a remaining session is active afterwards and the live page list is
\* that session's stored list; otherwise the active session and the live
\* page list stay as they were.
C23_CloseRemovesOneSession ==
  [][(lastOp'[1] = "closeSession" /\ Len(sessions) > 1)
       => /\ sessions' = SelectSeq(sessions, LAMBDA s : s.id # lastOp'[2])
          /\ IF lastOp'[2] = activeSessionId
             THEN /\ HasSession(sessions', activeSessionId')
                  /\ pages' = FindSession(sessions', activeSessionId').pages
             ELSE /\ activeSessionId' = activeSessionId
                  /\ pages' = pages]_vars

\* the active one of several sessions was closed and the session that took
\* over has pages
C23_Witness ==
  /\ lastOp[1] = "closeSession"
  /\ lastOp[3].count > 1
  /\ lastOp[3].active = lastOp[2]
  /\ activeSessionId # lastOp[2]
  /\ pages # << >>

\* C24: finishing a rename with a name that is empty after trimming leaves
\* the session list as it was; with any other name the addressed session gets
\* the trimmed name and nothing else changes: not its pages, not another
\* session, not the active session.
C24_RenameChangesOnlyName ==
  [][lastOp'[1] = "finishEditingTab"
       => /\ activeSessionId' = activeSessionId
          /\ IF Trim(editingTabName) = << >>
             THEN sessions' = sessions
             ELSE /\ Len(sessions') = Len(sessions)
                  /\ \A i \in 1..Len(sessions) :
                       /\ sessions'[i].id = sessions[i].id
                       /\ sessions'[i].pages = sessions[i].pages
                       /\ sessions'[i].name =
                            IF sessions[i].id = editingTabId
                            THEN Trim(editingTabName)
                            ELSE sessions[i].name]_vars

\* one of several sessions carries the name typed as " a"
C24_Witness ==
  /\ lastOp[1] = "finishEditingTab"
  /\ Len(sessions) > 1
  /\ \E i \in 1..Len(sessions) : sessions[i].name = <<"a">>

-----------------------------------------------------------------------------
(* Extraction with a render timeout: C25 *)

OkPages(doc) == { k \in 1..Len(doc) : doc[k] = "ok" }

\* C25: when the page loop of an extract job ends, every page whose render
\* succeeded was extracted, whether or not an earlier page failed or ran into
\* the render timeout, and the job's status is completed when some page
\* succeeded and error when none did; that is the status of the job when the
\* document is the only file of the selection.
C25_TimeoutSkipsOnePage ==
  (lastOp[1] = "pdfDocumentEnd" /\ lastOp[3].loaded)
     => /\ lastOp[3].extracted = Cardinality(OkPages(lastOp[3].doc))
        /\ lastOp[3].status =
             IF OkPages(lastOp[3].doc) # {} THEN "completed" ELSE "error"
        /\ lastOp[3].files = 1
             => /\ HasJob(processingJobs, lastOp[2])
                /\ FindJob(processingJobs, lastOp[2]).status = lastOp[3].status

\* a document whose first page ran into the timeout and whose second page was
\* extracted
C25_Witness ==
  /\ lastOp[1] = "pdfDocumentEnd"
  /\ lastOp[3].doc = <<"hang", "ok">>
  /\ lastOp[3].extracted = 1
  /\ lastOp[3].status = "completed"
  /\ Len(pages) = 1

-----------------------------------------------------------------------------
(* Export of pages that carry split lines: C26 *)

\* the list exported is a page with rotation 0 and one split line at
\* mid-height followed by a page without lines turned by 90
SplitAndTurnedPair(ps) ==
  /\ Len(ps) = 2
  /\ ps[1].rotation = 0
  /\ Len(ps[1].splitLines) = 1
  /\ \A k \in 1..Len(ps[1].splitLines[1].ys) :
        ps[1].splitLines[1].ys[k] * 2 = ps[1].height * Half
  /\ ps[2].rotation = 90
  /\ ps[2].splitLines = << >>

\* C26: exporting a page with one split line at mid-height and rotation 0
\* followed by a page with rotation 90 yields three output units in this
\* order: segment 0 of page 1, segment 1 of page 1, page 2 rotated.
C26_ExportSplitsPages ==
  (/\ lastOp[1] = "exportEnd"
   /\ lastOp[3].status = "completed"
   /\ SplitAndTurnedPair(lastOp[3].exported))
     => LET ps == lastOp[3].exported
            segs == SplitImageByLines(ps[1], 1, TRUE)
            units == lastOp[3].units
        IN /\ Len(units) = 3
           /\ Len(segs) = 2
           /\ units[1] = [id |-> segs[1].id, rotation |-> 0,
                          height |-> segs[1].height]
           /\ units[2] = [id |-> segs[2].id, rotation |-> 0,
                          height |-> segs[2].height]
           /\ units[3] = [id |-> ps[2].id, rotation |-> 90,
                          height |-> ps[2].height]

-----------------------------------------------------------------------------
(* Persistence of the session record: C27 *)

\* C27: when the write of the session record fails with quota-exceeded, the
\* failure is not fatal: the component stays mounted, the persisted record
\* is discarded, and the page list in memory is the one the operation that
\* triggered the save produced.
C27_QuotaFailureTolerated ==
  (lastOp[1] \in PanelOps /\ lastOp[3] = "quota")
     => /\ panel.mounted
        /\ panel.stored = NoRecord
        /\ panel.pages = lastOp[2]

-----
(* Rearranging and rotating: C14, C15, C16 *)

\* a text of decimal digits only
IsNumeral(num) == num # << >> /\ \A i \in 1..Len(num) : IsDigit(num[i])

\* the text lists every number of 1..n exactly once, separated by commas
\* (blanks around a number allowed)
DenotesPermutation(text, n) ==
  LET nums == SplitComma(text, << >>)
  IN /\ Len(nums) = n
     /\ \A i \in 1..n : IsNumeral(Trim(nums[i]))
     /\ { DecimalValue(Trim(nums[i])) : i \in 1..n } = 1..n

\* C14: applyInputRearrange on N pages accepts the input exactly when it is
\* a bijection on 1..N; a rejected input leaves the page list, orders
\* included, unchanged.
C14_AcceptsExactlyPermutations ==
  lastOp[1] = "applyInputRearrange"
     => /\ lastOp[3].accepted
             <=> DenotesPermutation(lastOp[2], Len(lastOp[3].before))
        /\ ~lastOp[3].accepted => pages = lastOp[3].before

\* C15: after an accepted permutation p, position i holds the page that was
\* at position p(i), no page is lost or invented, and every page's order is
\* its zero-based index.
C15_RearrangePlacesPages ==
  (/\ lastOp[1] = "applyInputRearrange"
   /\ lastOp[3].accepted
   /\ DenotesPermutation(lastOp[2], Len(lastOp[3].before)))
     => LET before == lastOp[3].before
            nums == SplitComma(lastOp[2], << >>)
        IN /\ Len(pages) = Len(before)
           /\ \A i \in 1..Len(pages) :
                pages[i] = [before[DecimalValue(Trim(nums[i]))]
                              EXCEPT !.order = (i - 1) * 1000]

\* "3,1,2" was applied to the pages 1, 2, 3 and gave the pages 3, 1, 2
C15_Witness ==
  /\ lastOp[1] = "applyInputRearrange"
  /\ lastOp[3].accepted
  /\ lastOp[2] = <<"3", ",", "1", ",", "2">>
  /\ [i \in 1..3 |-> lastOp[3].before[i].id] = << <<1>>, <<2>>, <<3>> >>
  /\ [i \in 1..3 |-> pages[i].id] = << <<3>>, <<1>>, <<2>> >>

\* C16: every page's rotation is one of 0, 90, 180, 270 after any sequence
\* of quarter turns from 0, and a rotatePage step changes no page but the one
\* it names, whose other fields it keeps.
C16_RotationStaysQuarterTurn ==
  /\ [](\A i \in 1..Len(pages) : pages[i].rotation \in {0, 90, 180, 270})
  /\ [][lastOp'[1] = "rotatePage"
          => /\ Len(pages') = Len(pages)
             /\ \A i \in 1..Len(pages) :
                  IF pages[i].id = lastOp'[2]
                  THEN [pages'[i] EXCEPT !.rotation = 0]
                         = [pages[i] EXCEPT !.rotation = 0]
                  ELSE pages'[i] = pages[i]]_vars

\* a left turn took the first of several pages from 0 to 270 while the second
\* page stays turned to 90
C16_Witness ==
  /\ lastOp = <<"rotatePage", <<1>>, "left">>
  /\ Len(pages) >= 2
  /\ pages[1].rotation = 270
  /\ pages[2].rotation = 90

-----
(* splitImageByLines: C17, C18 *)

\* C17: splitImageByLines on a page with no split lines returns the list
\* whose only element is that page, unchanged.
C17_NoLinesReturnsPage ==
  (lastOp[1] = "splitReturn" /\ lastOp[2].splitLines = << >>)
     => lastOp[3].result = <<lastOp[2]>>

\* splitImageByLines returned for a page without lines whose image loads
C17_Witness ==
  /\ lastOp[1] = "splitReturn"
  /\ lastOp[2].splitLines = << >>
  /\ lastOp[3].loaded
  /\ lastOp[3].result = <<lastOp[2]>>

\* top and bottom (in half pixels) of the strip between the lines i and i + 1
\* of the scaled, sorted lines ls of a page; 0 and Len(ls) + 1 are the borders
StripTop(ls, i) == IF i = 0 THEN 0 ELSE MinSeq(ls[i].ys) + LineGap * Half
StripBottom(ls, i, page) ==
  IF i < Len(ls) THEN MinSeq(ls[i + 1].ys) ELSE page.height * Half

\* the lines of a page are non-degenerate when every strip between
\* neighbouring lines, and between a border and its nearest line, is taller
\* than the least segment height by a pixel or more
NonDegenerate(page, scale) ==
  LET ls == SortedLines(page, scale)
  IN \A i \in 0..Len(ls) :
        StripBottom(ls, i, page) - StripTop(ls, i) >= (MinSegment + 1) * Half

\* C18: splitImageByLines on a page with k >= 1 non-degenerate split lines
\* yields exactly k + 1 segments, whose heights sum to the source height
\* minus the k gaps, and every segment's parentPageId is the page's id.
C18_SegmentsCoverSource ==
  (/\ lastOp[1] = "splitReturn"
   /\ lastOp[3].loaded
   /\ Len(lastOp[2].splitLines) >= 1
   /\ NonDegenerate(lastOp[2], lastOp[3].scale))
     => LET page == lastOp[2]
            k == Len(page.splitLines)
            result == lastOp[3].result
        IN /\ Len(result) = k + 1
           /\ SumSeq([i \in 1..Len(result) |-> result[i].height])
                = page.height - k * LineGap
           /\ \A i \in 1..Len(result) : result[i].parentPageId = page.id

(***************************************************************************)
(* Bands and segments of splitImageByLines: C28, C29                       *)
(***************************************************************************)

\* the bands of the page whose height reaches the least segment height
TallBands(page, scale) ==
  LET ls == SortedLines(page, scale)
  IN { i \in 0..Len(ls) :
         StripBottom(ls, i, page) - StripTop(ls, i) >= MinSegment * Half }

\* C28: splitImageByLines drops a band exactly when its height is under the
\* 5 pixel threshold (a band of height 5 or more becomes a segment); when
\* every band is dropped the result is the original page alone, unchanged.
C28_DropsBandsUnderThreshold ==
  (/\ lastOp[1] = "splitReturn"
   /\ lastOp[3].loaded
   /\ Len(lastOp[2].splitLines) >= 1)
     => LET page == lastOp[2]
            kept == TallBands(page, lastOp[3].scale)
            result == lastOp[3].result
        IN IF kept = {} THEN result = <<page>>
           ELSE /\ Len(result) = Cardinality(kept)
                /\ { result[j].splitIndex : j \in 1..Len(result) } = kept

\* C29: every segment splitImageByLines produces has rotation 0, a height
\* (its crop is the full band) equal to the band it was cut from, its
\* parentPageId set to the page's id and no split lines, whatever the
\* rotation of the parent page.
C29_SegmentsStartUnrotated ==
  (/\ lastOp[1] = "splitReturn"
   /\ lastOp[3].result # <<lastOp[2]>>)
     => LET page == lastOp[2]
            ls == SortedLines(page, lastOp[3].scale)
            result == lastOp[3].result
        IN \A j \in 1..Len(result) :
              /\ result[j].rotation = 0
              /\ result[j].parentPageId = page.id
              /\ result[j].splitLines = << >>
              /\ result[j].height
                    = (StripBottom(ls, result[j].splitIndex, page)
                         - StripTop(ls, result[j].splitIndex)) \div Half

(***************************************************************************)
(* Where the segments of a split page land: C30                            *)
(***************************************************************************)

Ids(ps) == [k \in 1..Len(ps) |-> ps[k].id]

\* the places of the list ps held by segments of the page pageId
SegmentPlaces(ps, pageId) ==
  { k \in 1..Len(ps) : ps[k].parentPageId = pageId }

\* C30: when applySplitsToPage has replaced a page P of the list by its
\* segments, the segments stand next to one another, in splitIndex order,
\* from the place P had; the other pages keep their relative order; and no
\* segment was given an order key (P's key plus its splitIndex steps) that
\* a page other than P has -- whatever the order keys of the list.
C30_SegmentsTakeParentsPlace ==
  [][(/\ lastOp'[1] = "splitDone"
      /\ HasPage(pages, lastOp'[2])
      /\ pages' # pages)
       => LET P == lastOp'[2]
              place == CHOOSE k \in 1..Len(pages) : pages[k].id = P
              segs == SegmentPlaces(pages', P)
              key == FindPage(lastOp'[3].snapshot, P).order
          IN /\ segs # {}
             /\ segs = place..(place + Cardinality(segs) - 1)
             /\ \A a, b \in segs :
                   a < b => pages'[a].splitIndex < pages'[b].splitIndex
             /\ Ids(SelectSeq(pages', LAMBDA q : q.parentPageId # P))
                   = Ids(SelectSeq(pages, LAMBDA q : q.id # P))
             /\ \A a \in segs : \A k \in 1..Len(pages) :
                   pages[k].id # P
                     => pages[k].order # key + pages'[a].splitIndex]_vars

(***************************************************************************)
(* Export jobs and live edits: C31                                         *)
(***************************************************************************)

ExportTasks == { t \in tasks : t.kind = "export" }

\* the pages an export has added to its document are the first pages of ps
EmitsFrom(units, ps) ==
  /\ Len(units) <= Len(ps)
  /\ \A k \in 1..Len(units) :
        units[k].id = ps[k].id /\ units[k].rotation = ps[k].rotation

JobIsProcessing(jobId) ==
  /\ HasJob(processingJobs, jobId)
  /\ FindJob(processingJobs, jobId).status = "processing"

\* C32: every job that was dispatched leaves the status processing (it is
\* given the status completed or error), provided every awaited external
\* step settles, with success or with failure, and timers run.
C32_JobsReachTerminalStatus ==
  \A id \in 1..(MaxUploads + MaxExports) :
     JobIsProcessing(id) ~> ~JobIsProcessing(id)

(***************************************************************************)
(* The counter of running jobs: C33                                        *)
(***************************************************************************)

C34_PageIdsDistinct ==
  \A i, j \in 1..Len(pages) : pages[i].id = pages[j].id => i = j

(***************************************************************************)
(* Edits made while applySplitsToAllPages runs: C35                        *)
(***************************************************************************)

\* C35: when applySplitsToAllPages finishes, the edits made to the page
\* list while it awaited its splits are still there: a page of the list
\* that is not replaced by segments is in the new list as it was (rotation,
\* split lines, image), and a page that had been removed from the list in
\* the meantime is not back.
C35_SplitAllKeepsEdits ==
  [][lastOp'[1] = "splitAllDone"
       => /\ \A k \in 1..Len(pages) :
                HasPage(pages', pages[k].id)
                  => [FindPage(pages', pages[k].id) EXCEPT !.order = 0]
                       = [pages[k] EXCEPT !.order = 0]
          /\ \A k \in 1..Len(pages') :
                HasPage(lastOp'[3].snapshot, pages'[k].id)
                  => HasPage(pages, pages'[k].id)]_vars

(***************************************************************************)
(* The session an upload's pages go to: C36                                *)
(***************************************************************************)

\* the page list of session sid: the live list when sid is active, and
\* the list stored in its record otherwise
PagesOfSession(sid) ==
  IF sid = activeSessionId THEN pages ELSE FindSession(sessions, sid).pages

\* C36: when an upload job ends, the pages it converted are in the page
\* list of the session recorded in the job (the session that was active
\* when the job was dispatched).
C36_UploadLandsInItsSession ==
  (lastOp[1] = "imageUploadEnd" /\ Len(lastOp[3].converted) > 0)
     => LET sid == FindJob(processingJobs, lastOp[2]).sessionId
        IN /\ HasSession(sessions, sid)
           /\ \A k \in 1..Len(lastOp[3].converted) :
                 HasPage(PagesOfSession(sid), lastOp[3].converted[k].id)

(***************************************************************************)
(* Exporting leaves the session alone: C37                                 *)
(***************************************************************************)

C38_OrderKeysIncrease ==
  \A i, j \in 1..Len(pages) : i < j => pages[i].order < pages[j].order

(***************************************************************************)
(* Sessions are isolated: C39                                              *)
(***************************************************************************)

\* the handlers that edit the page list of the active session at once
EditOps ==
  { "rotatePage", "deletePage", "reversePagesOrder", "applyInputRearrange",
    "finishDrawingSplitLine", "deleteSplitLine", "resetPageToOriginal",
    "applySplitsToPage", "undo" }

MasterHandlerRan == lastOp[1] \in {"handleImageUpload", "rotatePage", "deletePage"}

\* C40: in components/PDFMaster.tsx the auto-save quiesces: unless the
\* handlers keep changing the page list for ever, the effect that calls
\* saveCurrentSession writes to the session list finitely often, and from
\* some state on no auto-save is due any more
C40_AutoSaveQuiesces == <>[](~AutoSavePending) \/ []<>MasterHandlerRan

====
